---- MODULE Spec2Model ----
(***************************************************************************)
(* Model of the Databricks platform client of reserves-data-demo           *)
(* (src/databricks_client.py): the public operations of                     *)
(* DatabricksVolumeClient, the statement-completion poll, and the two       *)
(* schema-creation paths.  Remote calls are the environment: each call's    *)
(* outcome (a value or a raised exception) is chosen with \E.               *)
(*                                                                         *)
(* Text is modelled as a sequence of one-character strings, so that         *)
(* startswith, strip, split, lower and the substring test `in` are          *)
(* computed the way Python computes them.                                   *)
(***************************************************************************)
EXTENDS Integers, Sequences, FiniteSets, TLC

VARIABLES
    pc,                 \* position of the running operation
    op,                 \* the public operation that was called
    path,               \* the volume_path argument
    ret,                \* the (flag, message) pair returned to the caller
    escaped,            \* an exception left the public operation
    calls,              \* remote calls issued so far, in order (status checks excluded)
    docId,              \* index in Docs of the document stored at volume_path
    entities_present,   \* ordered dict: sequence of [table, n] (n = number of records)
    table_definitions,  \* ordered dict keys: tables a CREATE TABLE is built for
    schemaOutcome,      \* how schemas.create ended: "none", "created", "exists", "error"
    sql_execution_available,
    warehouse_id,
    created_tables,
    failed_tables,      \* entries "<table>: <error text>" as [table, text]
    populated_tables,
    stmtFailed,         \* history: <<kind, table>> of the statements that raised or whose poll raised
    ti,                 \* loop index over table_definitions / created_tables
    si,                 \* index of the next INSERT statement of the current table
    elapsed,            \* time.time() - start_time inside the poll (0 outside it)
    pollLog,            \* history of the current poll: what its status checks reported and how it ended
    gpc,                \* position of the document generator: "off", "start", "generated", "raised", "extracted", "checked"
    config,             \* the arguments of generate_synthetic_valnav_xml / validate_inputs
    xml_parts,          \* the lines of the generated document
    gen_raised,         \* class of the exception generate_synthetic_valnav_xml raised, "" for none
    extracted,          \* what _parse_xml_entities made of the generated document
    validation,         \* what validate_inputs returned: [flag, errors]
    num_scheduled,      \* num_scheduled_wells as computed for config, -1 before
    fn,                 \* the helper of the client that was applied on its own, "" for none
    arg,                \* the argument it was applied to
    result,             \* what it returned
    apc,                \* position of the running callback of the form: "idle", "generating", "writing", "returned"
    form,               \* the values of the form's inputs
    progress,           \* the local variable progress of generate_and_write_xml
    progress_bar,       \* the width the progress bar shows, in percent
    bar_history,        \* the widths the bar showed since the button was clicked, in order
    full_path,          \* the path generate_and_write_xml handed to the write, << >> before
    xml_file_path       \* the path create_schema_and_tables_callback handed to the read, << >> before

vars == <<pc, op, path, ret, escaped, calls, docId, entities_present,
          table_definitions, schemaOutcome, sql_execution_available, warehouse_id,
          created_tables, failed_tables, populated_tables, stmtFailed, ti, si,
          elapsed, pollLog,
          gpc, config, xml_parts, gen_raised, extracted, validation, num_scheduled,
          fn, arg, result,
          apc, form, progress, progress_bar, bar_history, full_path, xml_file_path>>

clientVars == <<pc, op, path, ret, escaped, calls, docId, entities_present,
                table_definitions, schemaOutcome, sql_execution_available, warehouse_id,
                created_tables, failed_tables, populated_tables, stmtFailed, ti, si,
                elapsed, pollLog>>

genVars == <<gpc, config, xml_parts, gen_raised, extracted, validation, num_scheduled>>

sqlVars == <<fn, arg, result>>

appVars == <<apc, form, progress, progress_bar, bar_history, full_path, xml_file_path>>

flowVars == <<docId, entities_present, table_definitions, schemaOutcome,
              sql_execution_available, warehouse_id, created_tables, failed_tables,
              populated_tables, stmtFailed, ti, si, elapsed, pollLog>>

-----------------------------------------------------------------------------
(* Bounds of the model *)

\* wells 0..MaxScheduleWells when only the number of scheduled wells is computed
MaxScheduleWells == 100
\* counts of the generated documents
MaxWells == 2
MaxFacilities == 2
MaxScenarios == 2
MaxPriceDecks == 2
MaxHistoryMonths == 2
MaxMeterStations == 2
\* largest count of one optional entity kind
MaxOptional == 16
\* number of different random price series
MaxPriceDraws == 2

\* most records of one table when the INSERT statements are built on their own
MaxRecords == 250
\* most entries a directory listing returns
MaxFiles == 2
\* most warehouses a listing returns
MaxWarehouses == 2
\* how many definitions of the legacy catalog the legacy path is run over
MaxLegacyTables == 2

(* Program constants *)

\* timeout: int = 300
timeout == 300
\* time.sleep(2)
poll_sleep == 2
\* batch_size = 100
batch_size == 100

-----------------------------------------------------------------------------
(* Text *)

VolumesPrefix == <<"/","V","o","l","u","m","e","s","/">>
VolumesWord == <<"V","o","l","u","m","e","s">>
Sub_already_exists == <<"a","l","r","e","a","d","y"," ","e","x","i","s","t","s">>
Sub_does_not_exist == <<"d","o","e","s"," ","n","o","t"," ","e","x","i","s","t">>
Sub_Statement_failed == <<"S","t","a","t","e","m","e","n","t"," ","f","a","i","l","e","d">>
Text_StatementFailedColon == <<"S","t","a","t","e","m","e","n","t"," ","f","a","i","l","e","d",":"," ">>
Text_Unknown_error == <<"U","n","k","n","o","w","n"," ","e","r","r","o","r">>
Text_Unknown_state == <<"U","n","k","n","o","w","n"," ","s","t","a","t","e",":"," ">>
Text_timeout == <<"t","i","m","e","o","u","t"," ","a","f","t","e","r"," ","3","0","0"," ","s">>
Text_NoWarehouses == <<"N","o"," ","S","Q","L"," ","w","a","r","e","h","o","u","s","e","s">>
Text_unbound == <<"'","r","e","s","p","o","n","s","e","'"," ","u","n","b","o","u","n","d">>

\* texts the platform may put in an error
Text_AlreadyExists == <<"S","c","h","e","m","a"," ","A","l","r","e","a","d","y"," ","E","x","i","s","t","s">>
Text_NotExist == <<"V","o","l","u","m","e"," ","D","o","e","s"," ","N","o","t"," ","E","x","i","s","t">>
Text_denied == <<"d","e","n","i","e","d">>
Text_unavailable == <<"u","n","a","v","a","i","l","a","b","l","e">>
Text_syntax == <<"s","y","n","t","a","x">>
Text_StmtFailedLookalike == <<"S","t","a","t","e","m","e","n","t"," ","f","a","i","l","e","d"," ","t","o"," ","l","o","a","d">>

\* paths a caller may pass
Path_ok == <<"/","V","o","l","u","m","e","s","/","c","/","s","/","v","/","f",".","x">>
Path_dir == <<"/","V","o","l","u","m","e","s","/","c","/","s","/","v","/">>
Path_lower == <<"/","v","o","l","u","m","e","s","/","c","/","s","/","v","/","f",".","x">>
Path_norel == <<"V","o","l","u","m","e","s","/","c","/","s","/","v","/","f",".","x">>
Path_short == <<"/","V","o","l","u","m","e","s","/","c","/","s">>
Path_noslash == <<"/","V","o","l","u","m","e","s">>
Path_tmp == <<"/","t","m","p","/","f",".","x">>
Path_empty == << >>

Paths == {Path_ok, Path_dir, Path_lower, Path_norel, Path_short, Path_noslash,
          Path_tmp, Path_empty}

\* str.startswith
StartsWithFirstCharOnly(s, p) == Len(s) >= 1 /\ Len(p) >= 1 /\ s[1] = p[1]
StartsWith(s, p) == Len(s) >= Len(p) /\ SubSeq(s, 1, Len(p)) = p

\* the `in` operator on str
Contains(s, sub) ==
    \E i \in 1..(Len(s) - Len(sub) + 1) : SubSeq(s, i, i + Len(sub) - 1) = sub

\* str.lower, on the letters the texts of the model use
LowerChar(c) ==
    CASE c = "A" -> "a" [] c = "D" -> "d" [] c = "E" -> "e" [] c = "N" -> "n"
      [] c = "S" -> "s" [] c = "V" -> "v" [] c = "U" -> "u" [] c = "Q" -> "q"
      [] c = "L" -> "l" [] OTHER -> c
\* the text is compared as it is, without lower()
LowerIdentity(s) == s
Lower(s) == [i \in 1..Len(s) |-> LowerChar(s[i])]

\* str.strip(ch)
RECURSIVE LStrip(_, _)
LStrip(s, ch) == IF s # << >> /\ Head(s) = ch THEN LStrip(Tail(s), ch) ELSE s
RECURSIVE RStrip(_, _)
RStrip(s, ch) ==
    IF s # << >> /\ s[Len(s)] = ch THEN RStrip(SubSeq(s, 1, Len(s) - 1), ch) ELSE s
Strip(s, ch) == RStrip(LStrip(s, ch), ch)

\* str.split(sep) for a one-character separator: always at least one part
RECURSIVE SplitFrom(_, _, _)
SplitFrom(s, sep, cur) ==
    IF s = << >> THEN <<cur>>
    ELSE IF Head(s) = sep THEN <<cur>> \o SplitFrom(Tail(s), sep, << >>)
    ELSE SplitFrom(Tail(s), sep, Append(cur, Head(s)))
Split(s, sep) == SplitFrom(s, sep, << >>)

-----------------------------------------------------------------------------
(* Exceptions and results *)

\* DatabricksError is a subclass of Exception; so are the other classes here
Exc(cls, text) == [cls |-> cls, text |-> text]
IsInstanceExactOnly(e, cls) == e.cls = cls
IsInstance(e, cls) == cls = "Exception" \/ e.cls = cls

Return(flag, msg) == [kind |-> "return", flag |-> flag, msg |-> msg]
Raise(e) == [kind |-> "raise", flag |-> FALSE, msg |-> e]

NoRet == [flag |-> FALSE, msg |-> <<"<not returned>">>]

\* the operation hands its result to the caller
Finish(r) ==
    /\ pc' = "done"
    /\ IF r.kind = "return"
       THEN ret' = [flag |-> r.flag, msg |-> r.msg] /\ escaped' = FALSE
       ELSE ret' = ret /\ escaped' = TRUE

\* one remote call, as the history variable calls records it
\* (outcome: how the call ended, "raise" for an exception; text: the text of the
\* exception)
ErrText(out) == IF out.kind = "raise" THEN out.msg.text ELSE << >>
Call(api, outcome, text) ==
    [api |-> api, kind |-> "", table |-> "", batch |-> 0, outcome |-> outcome,
     text |-> text]
Stmt(kind, table, batch, out) ==
    [api |-> "statement_execution.execute_statement", kind |-> kind,
     table |-> table, batch |-> batch, outcome |-> out.kind, text |-> ErrText(out)]

\* errors a remote call may raise
RemoteErrors ==
    {Exc("DatabricksError", Text_denied), Exc("DatabricksError", Text_NotExist),
     Exc("ConnectionError", Text_unavailable)}

\* history of one run of the poll: terminal = a status check reported FAILED or
\* CANCELED; after = a status check was issued after that report; succeeded = a
\* status check reported SUCCEEDED; result = how the poll ended
\* last = what the latest status check gave: "raise" (the call itself raised),
\* "unknown" (a state the poll does not know), "other", or "none" before the first
NoPoll == [terminal |-> FALSE, after |-> FALSE, succeeded |-> FALSE,
           error |-> << >>, result |-> "none", text |-> << >>, last |-> "none"]
NewPoll == [NoPoll EXCEPT !.result = "polling"]

ClientIdle ==
    /\ pc = "idle" /\ op = "none" /\ path = << >> /\ ret = NoRet
    /\ escaped = FALSE /\ calls = << >>
    /\ docId = 0 /\ entities_present = << >> /\ table_definitions = << >>
    /\ schemaOutcome = "none" /\ sql_execution_available = FALSE
    /\ warehouse_id = 0 /\ created_tables = << >> /\ failed_tables = << >>
    /\ populated_tables = << >> /\ stmtFailed = {} /\ ti = 0 /\ si = 0
    /\ elapsed = 0
    /\ pollLog = NoPoll

\* the generator before it is called
NoConfig == [num_wells |-> 0]
NoValidation == [flag |-> FALSE, errors |-> <<"<not returned>">>]
NoExtraction == [entities |-> << >>, annual_prices |-> << >>]
GeneratorIdle ==
    /\ config = NoConfig /\ xml_parts = << >> /\ gen_raised = ""
    /\ extracted = NoExtraction /\ validation = NoValidation /\ num_scheduled = -1

\* no helper was applied on its own
SqlIdle == fn = "" /\ arg = << >> /\ result = << >>

NoForm == [volume_path |-> << >>]
\* the form before a button is clicked: the bar is an empty element
AppIdle ==
    /\ apc = "idle" /\ form = NoForm /\ progress = 0 /\ progress_bar = 0
    /\ bar_history = << >> /\ full_path = << >> /\ xml_file_path = << >>

Init == ClientIdle /\ gpc = "off" /\ GeneratorIdle /\ SqlIdle /\ AppIdle

-----------------------------------------------------------------------------
(* test_connection *)

\* except DatabricksError / except Exception around current_user.me()
test_connection_result(out) ==
    IF out.kind = "return" THEN Return(TRUE, <<"Connected as ", out.msg>>)
    ELSE IF IsInstance(out.msg, "DatabricksError")
         THEN Return(FALSE, <<"Connection failed: ", out.msg.text>>)
    ELSE IF IsInstance(out.msg, "Exception")
         THEN Return(FALSE, <<"Unexpected error: ", out.msg.text>>)
    ELSE out

test_connection ==
    /\ pc = "idle"
    /\ UNCHANGED <<genVars, sqlVars, appVars>>
    /\ \E out \in {Return(TRUE, "user")} \cup {Raise(e) : e \in RemoteErrors} :
        /\ op' = "test_connection"
        /\ calls' = Append(calls, Call("current_user.me", out.kind, ErrText(out)))
        /\ Finish(test_connection_result(out))
    /\ UNCHANGED <<path, flowVars>>

(* write_file_to_volume *)

\* the body of the try: the prefix test, then files.upload
write_file_body(volume_path, out) ==
    IF ~StartsWith(volume_path, VolumesPrefix)
    THEN [r |-> Return(FALSE, <<"Volume path must start with '/Volumes/'">>), uploaded |-> FALSE]
    ELSE IF out.kind = "return"
         THEN [r |-> Return(TRUE, <<"File successfully written to ", volume_path>>), uploaded |-> TRUE]
         ELSE [r |-> out, uploaded |-> TRUE]

write_file_result(r) ==
    IF r.kind = "return" THEN r
    ELSE IF IsInstance(r.msg, "DatabricksError")
         THEN Return(FALSE, <<"Databricks API error: ", r.msg.text>>)
    ELSE IF IsInstance(r.msg, "Exception")
         THEN Return(FALSE, <<"Unexpected error: ", r.msg.text>>)
    ELSE r

write_file_to_volume ==
    /\ pc = "idle"
    /\ UNCHANGED <<genVars, sqlVars, appVars>>
    /\ \E p \in Paths, out \in {Return(TRUE, "ok")} \cup {Raise(e) : e \in RemoteErrors} :
        LET b == write_file_body(p, out) IN
        /\ op' = "write_file_to_volume"
        /\ path' = p
        /\ calls' = IF b.uploaded THEN Append(calls, Call("files.upload", out.kind, ErrText(out))) ELSE calls
        /\ Finish(write_file_result(b.r))
    /\ UNCHANGED flowVars

(* check_volume_exists *)

\* path_parts = volume_path.strip('/').split('/'); the format test
path_parts(volume_path) == Split(Strip(volume_path, "/"), "/")
volume_path_valid(volume_path) ==
    LET parts == path_parts(volume_path) IN
    ~(Len(parts) < 4 \/ parts[1] # VolumesWord)

\* the inner try around volumes.read catches DatabricksError only
check_volume_inner(volume_path, out) ==
    LET parts == path_parts(volume_path)
        full_name == <<parts[2], parts[3], parts[4]>> IN
    IF out.kind = "return" THEN Return(TRUE, <<"Volume is accessible", full_name>>)
    ELSE IF IsInstance(out.msg, "DatabricksError")
         THEN IF Contains(Lower(out.msg.text), Sub_does_not_exist)
              THEN Return(FALSE, <<"Volume does not exist", full_name>>)
              ELSE Return(FALSE, <<"Error accessing volume: ", out.msg.text>>)
    ELSE out

check_volume_result(r) ==
    IF r.kind = "return" THEN r
    ELSE IF IsInstance(r.msg, "Exception")
         THEN Return(FALSE, <<"Error checking volume: ", r.msg.text>>)
    ELSE r

check_volume_exists ==
    /\ pc = "idle"
    /\ UNCHANGED <<genVars, sqlVars, appVars>>
    /\ \E p \in Paths, out \in {Return(TRUE, "info")} \cup {Raise(e) : e \in RemoteErrors} :
        LET valid == volume_path_valid(p) IN
        /\ op' = "check_volume_exists"
        /\ path' = p
        /\ calls' = IF valid THEN Append(calls, Call("volumes.read", out.kind, ErrText(out))) ELSE calls
        /\ Finish(check_volume_result(
              IF valid THEN check_volume_inner(p, out)
              ELSE Return(FALSE, <<"Invalid volume path format">>)))
    /\ UNCHANGED flowVars

(* list_volume_contents *)

\* the listing is iterated lazily: it may raise at the call or after k entries
list_volume_result(n, out) ==
    IF out.kind = "return" THEN Return(TRUE, [i \in 1..n |-> <<"file", i>>])
    ELSE IF IsInstance(out.msg, "DatabricksError") THEN Return(FALSE, << >>)
    ELSE IF IsInstance(out.msg, "Exception") THEN Return(FALSE, << >>)
    ELSE out

list_volume_contents ==
    /\ pc = "idle"
    /\ UNCHANGED <<genVars, sqlVars, appVars>>
    /\ \E p \in Paths, n \in 0..MaxFiles,
          out \in {Return(TRUE, "ok")} \cup {Raise(e) : e \in RemoteErrors} :
        /\ op' = "list_volume_contents"
        /\ path' = p
        /\ calls' = Append(calls, Call("files.list_directory_contents", out.kind, ErrText(out)))
        /\ Finish(list_volume_result(n, out))
    /\ UNCHANGED flowVars

-----------------------------------------------------------------------------
(* Floating-point arithmetic of int(num_wells * schedule_coverage) *)

\* A non-negative number as a sequence of limbs, least significant first. A
\* coverage c < 1 is held as the integer c * 2^(14 * 5) in FracLimbs limbs.
LimbBits == 14
LimbBase == 2^LimbBits
FracLimbs == 5
\* significant bits of a double
MantissaBits == 53

RECURSIVE BitLen(_)
BitLen(n) == IF n = 0 THEN 0 ELSE 1 + BitLen(n \div 2)

RECURSIVE Carry(_, _)
Carry(xs, c) ==
    IF xs = << >>
    THEN IF c = 0 THEN << >> ELSE <<c % LimbBase>> \o Carry(<< >>, c \div LimbBase)
    ELSE LET v == Head(xs) + c
         IN  <<v % LimbBase>> \o Carry(Tail(xs), v \div LimbBase)

MulSmall(xs, w) == Carry([i \in 1..Len(xs) |-> xs[i] * w], 0)

\* the n limbs of floor(r * 2^(14 n) / 100) and the remainder, by long division
RECURSIVE DivFrac(_, _)
DivFrac(r, n) ==
    IF n = 0 THEN [q |-> << >>, r |-> r]
    ELSE LET cur == r * LimbBase
             rest == DivFrac(cur % 100, n - 1)
         IN  [q |-> Append(rest.q, cur \div 100), r |-> rest.r]

\* x <= y for two limb sequences of the same length
RECURSIVE LimbsLE(_, _)
LimbsLE(x, y) ==
    IF x = << >> THEN TRUE
    ELSE LET n == Len(x)
         IN  IF x[n] # y[n] THEN x[n] < y[n]
             ELSE LimbsLE(SubSeq(x, 1, n - 1), SubSeq(y, 1, n - 1))

\* schedule_coverage / 100 for a percentage 1..99: the double nearest to p/100
\* (53 significant bits, ties to even), as FracLimbs limbs
coverage_double(p) ==
    LET d == DivFrac(p, FracLimbs)
        t == LimbBits * (FracLimbs - 1) - MantissaBits + BitLen(d.q[FracLimbs])
        lo == d.q[1] + d.q[2] * LimbBase
        x == lo % (2^t)
        half == 2^(t - 1)
        odd == (lo \div (2^t)) % 2 = 1
        up == x > half \/ (x = half /\ (d.r > 0 \/ odd))
        lo2 == lo - x + (IF up THEN 2^t ELSE 0)
    IN  Carry(<<lo2 % LimbBase, lo2 \div LimbBase>> \o SubSeq(d.q, 3, FracLimbs), 0)

\* int(w * c) for the double c: the exact product is rounded to the nearest
\* double (ties to even) and then truncated
int_of_product(w, c) ==
    LET prod == MulSmall(c, w)
        frac == SubSeq(prod \o [i \in 1..FracLimbs |-> 0], 1, FracLimbs)
        n == IF Len(prod) > FracLimbs THEN prod[FracLimbs + 1] ELSE 0
        \* distance from the product up to n + 1, and half the spacing of the
        \* doubles below n + 1, both in units of 2^-(14 * 5)
        dist == SubSeq(Carry([i \in 1..FracLimbs |-> LimbBase - 1 - frac[i]], 1),
                       1, FracLimbs)
        e == BitLen(n) - 1 + LimbBits * FracLimbs - MantissaBits
        halfulp == [i \in 1..FracLimbs |-> IF i - 1 = e \div LimbBits THEN 2^(e % LimbBits) ELSE 0]
    IN  IF \A i \in 1..FracLimbs : frac[i] = 0 THEN n
        ELSE IF LimbsLE(dist, halfulp) THEN n + 1
        ELSE n

\* num_scheduled_wells = int(num_wells * schedule_coverage), the coverage given
\* as a percentage
scheduled_wells_count(num_wells, percent) ==
    IF percent = 0 THEN 0
    ELSE IF percent = 100 THEN num_wells
    ELSE int_of_product(num_wells, coverage_double(percent))

-----------------------------------------------------------------------------
(* validate_inputs and the number of scheduled wells *)

\* the arguments of generate_synthetic_valnav_xml with their defaults; the
\* coverage is held as a percentage (70 for 0.7)
default_config ==
    [num_wells |-> 250, num_facilities |-> 15, num_scenarios |-> 2,
     num_price_decks |-> 3, num_companies |-> 5, num_countries |-> 8,
     num_currencies |-> 8, num_fiscal_regimes |-> 3, num_meter_stations |-> 0,
     num_transportation_areas |-> 0, num_type_wells |-> 0, num_tax_pools |-> 0,
     num_rollups |-> 0, history_months |-> 24, schedule_coverage |-> 70]

\* the checks of validate_inputs, in order: [violated, entry]. Doubles nearest
\* to p/100 compare as the percentages p do.
validation_rules(c) == <<
    [violated |-> ~(1 <= c.num_wells /\ c.num_wells <= 10000),
     entry |-> "Number of wells must be between 1 and 10,000"],
    [violated |-> ~(1 <= c.num_facilities /\ c.num_facilities <= 1000),
     entry |-> "Number of facilities must be between 1 and 1,000"],
    [violated |-> ~(1 <= c.num_scenarios /\ c.num_scenarios <= 50),
     entry |-> "Number of scenarios must be between 1 and 50"],
    [violated |-> ~(1 <= c.num_price_decks /\ c.num_price_decks <= 20),
     entry |-> "Number of price decks must be between 1 and 20"],
    [violated |-> ~(1 <= c.history_months /\ c.history_months <= 120),
     entry |-> "Production history must be between 1 and 120 months"],
    [violated |-> ~(10 <= c.schedule_coverage /\ c.schedule_coverage <= 100),
     entry |-> "Schedule coverage must be between 10% and 100%"],
    [violated |-> c.num_facilities > c.num_wells,
     entry |-> "Number of facilities cannot exceed number of wells"] >>

\* the rule facilities <= wells is left out
validate_inputs_noFacilityRule(c) ==
    LET rules == SubSeq(validation_rules(c), 1, 6)
        hit == SelectSeq(rules, LAMBDA r : r.violated)
        errors == [i \in 1..Len(hit) |-> hit[i].entry]
    IN  [flag |-> errors = << >>, errors |-> errors]

\* validate_inputs: (is_valid, "; ".join(errors)), the message held as its entries
validate_inputs(c) ==
    LET hit == SelectSeq(validation_rules(c), LAMBDA r : r.violated)
        errors == [i \in 1..Len(hit) |-> hit[i].entry]
    IN  [flag |-> errors = << >>, errors |-> errors]

\* the argument values at and around the limits of validate_inputs
ValidateConfigs ==
    {[default_config EXCEPT !.num_wells = w, !.num_facilities = f,
                            !.num_scenarios = sc, !.num_price_decks = d,
                            !.history_months = h, !.schedule_coverage = cov] :
        w \in {0, 1, 250, 10000, 10001}, f \in {0, 1, 15, 1000, 1001},
        sc \in {0, 2, 50, 51}, d \in {0, 3, 20, 21},
        h \in {0, 24, 120, 121}, cov \in {5, 10, 70, 100, 101}}

ScheduleConfigs ==
    {[default_config EXCEPT !.num_wells = w, !.schedule_coverage = cov] :
        w \in 0..MaxScheduleWells, cov \in {0, 10, 29, 50, 70, 100}}

FormInit ==
    /\ ClientIdle /\ SqlIdle /\ AppIdle
    /\ gpc = "form"
    /\ config \in ValidateConfigs \cup ScheduleConfigs
    /\ xml_parts = << >> /\ gen_raised = "" /\ extracted = NoExtraction
    /\ validation = NoValidation /\ num_scheduled = -1

validate ==
    /\ gpc = "form"
    /\ validation = NoValidation
    /\ validation' = validate_inputs(config)
    /\ UNCHANGED <<clientVars, sqlVars, appVars, gpc, config, xml_parts, gen_raised, extracted,
                   num_scheduled>>

\* line 186 alone, for a coverage within 0.0..1.0
count_scheduled ==
    /\ gpc = "form"
    /\ num_scheduled = -1
    /\ config.schedule_coverage \in 0..100
    /\ num_scheduled' = scheduled_wells_count(config.num_wells, config.schedule_coverage)
    /\ UNCHANGED <<clientVars, sqlVars, appVars, gpc, config, xml_parts, gen_raised, extracted,
                   validation>>

FormNext == validate \/ count_scheduled

FormSpec == FormInit /\ [][FormNext]_vars

-----------------------------------------------------------------------------
(* generate_synthetic_valnav_xml *)

\* A line appended to xml_parts: an opening tag, an element without children
\* ("empty"), an element holding text, a closing tag, or the XML declaration.
\* Attributes are <<name, value>> pairs; the attributes that hold neither an
\* identifier nor a price (names, types, rates, dates) are left out.
Line(kind, tag, attrs, text) == [kind |-> kind, tag |-> tag, attrs |-> attrs, text |-> text]
Open(tag, attrs) == Line("open", tag, attrs, << >>)
Empty(tag, attrs) == Line("empty", tag, attrs, << >>)
Close(tag) == Line("close", tag, << >>, << >>)
TextElement(tag, text) == Line("text", tag, << >>, text)

RECURSIVE Flatten(_)
Flatten(ss) == IF ss = << >> THEN << >> ELSE Head(ss) \o Flatten(Tail(ss))

\* the decimal digits of i, and f"{i:0{width}d}"
RECURSIVE Digits(_)
Digits(i) == IF i < 10 THEN <<i>> ELSE Append(Digits(i \div 10), i % 10)
Pad(i, width) ==
    LET d == Digits(i)
    IN  [k \in 1..(IF width > Len(d) THEN width - Len(d) ELSE 0) |-> 0] \o d
\* f"{prefix}{i:0{width}d}", e.g. FAC-001
Id(prefix, i, width) == <<prefix>> \o Pad(i, width)

\* the elements of a set of numbers in ascending order
RECURSIVE Ascending(_)
Ascending(S) ==
    IF S = {} THEN << >>
    ELSE LET m == CHOOSE x \in S : \A y \in S : x <= y
         IN  <<m>> \o Ascending(S \ {m})

commodities == <<
    [name |-> "Oil", unit |-> "USD/bbl", base_price |-> 70],
    [name |-> "Gas", unit |-> "USD/Mcf", base_price |-> 3],
    [name |-> "NGLs", unit |-> "USD/bbl", base_price |-> 35] >>

\* years of price forecasts per commodity
forecast_years == 6

\* the random price of a year: the base price moved by the series drawn
price(commodity, year_offset, draw) == commodity.base_price * 100 + draw * (year_offset + 1)

price_deck_ids(c) == [i \in 1..c.num_price_decks |-> Id("PD-", i, 3)]
scenario_ids(c) == [i \in 1..c.num_scenarios |-> Id("SCN-", i, 3)]
facility_ids(c) == [i \in 1..c.num_facilities |-> Id("FAC-", i, 3)]
well_ids(c) == [i \in 1..c.num_wells |-> Id("WELL-", i, 4)]

price_commodity_lines(commodity, draw) ==
    <<Open("PriceCommodity", <<<<"Commodity", commodity.name>>, <<"Unit", commodity.unit>>>>)>>
    \o [k \in 1..forecast_years |->
           Empty("AnnualPrice", <<<<"Year", 2025 + (k - 1)>>,
                                  <<"Value", price(commodity, k - 1, draw)>>>>)]
    \o <<Close("PriceCommodity")>>

price_decks_lines(c, draw) ==
    <<Open("PriceDecks", << >>)>>
    \o Flatten([i \in 1..c.num_price_decks |->
           <<Open("PriceDeck", <<<<"ID", price_deck_ids(c)[i]>>, <<"CurrencyID", "USD">>>>)>>
           \o Flatten([k \in 1..Len(commodities) |->
                          price_commodity_lines(commodities[k], draw)])
           \o <<Close("PriceDeck")>>])
    \o <<Close("PriceDecks")>>

\* the price deck number is one too high
scenarios_lines_nextDeck(c, deck_of) ==
    <<Open("Scenarios", << >>)>>
    \o [i \in 1..c.num_scenarios |->
           Empty("Scenario", <<<<"ID", scenario_ids(c)[i]>>,
                               <<"PriceDeckID", Id("PD-", deck_of[i] + 1, 3)>>>>)]
    \o <<Close("Scenarios")>>

\* deck_of[i]: the index random.choice(price_deck_ids) picked for scenario i
scenarios_lines(c, deck_of) ==
    <<Open("Scenarios", << >>)>>
    \o [i \in 1..c.num_scenarios |->
           Empty("Scenario", <<<<"ID", scenario_ids(c)[i]>>,
                               <<"PriceDeckID", price_deck_ids(c)[deck_of[i]]>>>>)]
    \o <<Close("Scenarios")>>

facilities_lines(c) ==
    <<Open("Facilities", << >>)>>
    \o [i \in 1..c.num_facilities |-> Empty("Facility", <<<<"ID", facility_ids(c)[i]>>>>)]
    \o <<Close("Facilities")>>

Min(a, b) == IF a < b THEN a ELSE b
Max(a, b) == IF a > b THEN a ELSE b
num_groups(c) == Min(5, Max(1, c.num_wells \div 50))
num_wells_to_sample(c) == Min(Min(20, Max(1, c.num_wells \div num_groups(c))), c.num_wells)

\* the facility number is one too high
well_lines_nextFacility(c, i, fac) ==
    <<Open("Well", <<<<"ID", well_ids(c)[i]>>, <<"FacilityID", Id("FAC-", fac + 1, 3)>>>>),
      Empty("WellboreData", <<<<"Depth", 3000>>, <<"Trajectory", "Vertical">>>>),
      Empty("ReservoirData", <<<<"Formation", "Bakken">>, <<"FluidType", "Oil">>>>),
      Close("Well")>>

\* the four lines of well i; fac is the index random.choice(facility_ids) picked
well_lines(c, i, fac) ==
    <<Open("Well", <<<<"ID", well_ids(c)[i]>>, <<"FacilityID", facility_ids(c)[fac]>>>>),
      Empty("WellboreData", <<<<"Depth", 3000>>, <<"Trajectory", "Vertical">>>>),
      Empty("ReservoirData", <<<<"Formation", "Bakken">>, <<"FluidType", "Oil">>>>),
      Close("Well")>>

\* members[g]: the wells random.sample picked for group g (in ascending order)
wells_and_groups_lines(c, fac_of, members) ==
    <<Open("WellsAndGroups", << >>)>>
    \o Flatten([i \in 1..c.num_wells |-> well_lines(c, i, fac_of[i])])
    \o Flatten([g \in 1..num_groups(c) |->
           <<Open("Group", <<<<"ID", Id("GRP-", g, 3)>>>>)>>
           \o [k \in 1..Cardinality(members[g]) |->
                  TextElement("MemberWellID", well_ids(c)[Ascending(members[g])[k]])]
           \o <<Close("Group")>>])
    \o <<Close("WellsAndGroups")>>

\* scheduled: the wells random.sample picked (in ascending order); scen_of[k]:
\* the index random.choice(scenario_ids) picked for the k-th of them
bulk_well_schedules_lines(c, scheduled, scen_of) ==
    <<Open("BulkWellSchedules", << >>)>>
    \o Flatten([k \in 1..Cardinality(scheduled) |->
           [m \in 1..c.history_months |->
               Empty("WellSchedule",
                     <<<<"WellID", well_ids(c)[Ascending(scheduled)[k]]>>,
                       <<"ScenarioID", scenario_ids(c)[scen_of[k]]>>,
                       <<"ProductionDate", <<"months ago", m - 1>>>>>>)]])
    \o <<Close("BulkWellSchedules")>>

\* an optional section whose elements are numbered: absent when n = 0
numbered_section(section, tag, prefix, n) ==
    IF n > 0
    THEN <<Open(section, << >>)>>
         \o [i \in 1..n |-> Empty(tag, <<<<"ID", Id(prefix, i, 3)>>>>)]
         \o <<Close(section)>>
    ELSE << >>

all_currencies ==
    <<"USD", "CAD", "EUR", "GBP", "JPY", "AUD", "CNY", "BRL", "MXN", "NOK", "RUB",
      "INR", "SAR", "AED", "KWD">>
all_countries ==
    <<"US", "CA", "UK", "NO", "AU", "BR", "MX", "AR", "SA", "RU", "IN", "AE", "KW",
      "QA", "NG">>

\* an optional section whose elements are the slice all[:n] of a fixed list
listed_section(section, tag, all, n) ==
    IF n > 0
    THEN LET selected == SubSeq(all, 1, Min(n, Len(all)))
         IN  <<Open(section, << >>)>>
             \o [i \in 1..Len(selected) |-> Empty(tag, <<<<"ID", selected[i]>>>>)]
             \o <<Close(section)>>
    ELSE << >>

\* meter_fac[i]: the index random.choice(facility_ids) picked for station i
meter_stations_lines(c, meter_fac) ==
    IF c.num_meter_stations > 0
    THEN <<Open("MeterStations", << >>)>>
         \o [i \in 1..c.num_meter_stations |->
                Empty("MeterStation",
                      <<<<"ID", Id("METER-", i, 3)>>,
                        <<"FacilityID", IF facility_ids(c) # << >>
                                        THEN facility_ids(c)[meter_fac[i]]
                                        ELSE Id("FAC-", 1, 3)>>>>)]
         \o <<Close("MeterStations")>>
    ELSE << >>

\* the random choices of one call
Draws(c) ==
    [price : 1..MaxPriceDraws,
     deck_of : [1..c.num_scenarios -> 1..c.num_price_decks],
     fac_of : [1..c.num_wells -> 1..c.num_facilities],
     members : [1..num_groups(c) ->
                   {m \in SUBSET (1..c.num_wells) : Cardinality(m) = num_wells_to_sample(c)}],
     scheduled : {m \in SUBSET (1..c.num_wells) :
                     Cardinality(m) = scheduled_wells_count(c.num_wells, c.schedule_coverage)},
     scen_of : [1..scheduled_wells_count(c.num_wells, c.schedule_coverage)
                   -> 1..c.num_scenarios],
     meter_fac : IF c.num_facilities = 0 THEN {[i \in 1..c.num_meter_stations |-> 0]}
                 ELSE [1..c.num_meter_stations -> 1..c.num_facilities]]

\* "\n".join(xml_parts), held as the lines
document(c, d) ==
    <<Line("declaration", "xml", << >>, << >>),
      Open("ProjectData", <<<<"generatedBy", "DashSynthGen">>>>)>>
    \o price_decks_lines(c, d.price)
    \o scenarios_lines(c, d.deck_of)
    \o facilities_lines(c)
    \o wells_and_groups_lines(c, d.fac_of, d.members)
    \o bulk_well_schedules_lines(c, d.scheduled, d.scen_of)
    \o numbered_section("Companies", "Company", "COMP-", c.num_companies)
    \o listed_section("Currencies", "Currency", all_currencies, c.num_currencies)
    \o listed_section("Countries", "Country", all_countries, c.num_countries)
    \o numbered_section("FiscalRegimes", "FiscalRegime", "FISC-", c.num_fiscal_regimes)
    \o meter_stations_lines(c, d.meter_fac)
    \o numbered_section("TransportationAreas", "TransportationArea", "TRANS-",
                        c.num_transportation_areas)
    \o numbered_section("TypeWells", "TypeWell", "TYPE-", c.num_type_wells)
    \o numbered_section("TaxPools", "TaxPool", "POOL-", c.num_tax_pools)
    \o numbered_section("Rollups", "Rollup", "ROLLUP-", c.num_rollups)
    \o <<Close("ProjectData")>>

\* random.choice raises IndexError on an empty list, random.sample raises
\* ValueError when the sample is larger than the population
generate_raises(c) ==
    LET n == scheduled_wells_count(c.num_wells, c.schedule_coverage)
    IN  IF c.num_scenarios > 0 /\ price_deck_ids(c) = << >> THEN "IndexError"
        ELSE IF c.num_wells > 0 /\ facility_ids(c) = << >> THEN "IndexError"
        ELSE IF n > Len(well_ids(c)) THEN "ValueError"
        ELSE IF n > 0 /\ scenario_ids(c) = << >> THEN "IndexError"
        ELSE ""

\* the counts the configuration form allows for the optional entity kinds
optional_form_max ==
    [num_companies |-> 100, num_countries |-> 50, num_currencies |-> 30,
     num_fiscal_regimes |-> 20, num_meter_stations |-> 200,
     num_transportation_areas |-> 50, num_type_wells |-> 100, num_tax_pools |-> 50,
     num_rollups |-> 20]
OptionalKinds == DOMAIN optional_form_max

\* one of everything required, none of the optional kinds
base_config ==
    [num_wells |-> 1, num_facilities |-> 1, num_scenarios |-> 1,
     num_price_decks |-> 1, num_companies |-> 0, num_countries |-> 0,
     num_currencies |-> 0, num_fiscal_regimes |-> 0, num_meter_stations |-> 0,
     num_transportation_areas |-> 0, num_type_wells |-> 0, num_tax_pools |-> 0,
     num_rollups |-> 0, history_months |-> 1, schedule_coverage |-> 100]
empty_config ==
    [base_config EXCEPT !.num_wells = 0, !.num_facilities = 0, !.num_scenarios = 0,
                        !.num_price_decks = 0]

\* the configurations of the model: wells and facilities vary, scenarios and
\* price decks vary, meter stations and facilities vary, one optional kind varies
WellConfigs ==
    {[base_config EXCEPT !.num_wells = w, !.num_facilities = f,
                         !.schedule_coverage = cov] :
        w \in 0..MaxWells, f \in 0..MaxFacilities, cov \in {0, 50, 100}}
ScenarioConfigs ==
    {[base_config EXCEPT !.num_scenarios = sc, !.num_price_decks = d,
                         !.num_wells = w, !.history_months = h] :
        sc \in 0..MaxScenarios, d \in 0..MaxPriceDecks, w \in {0, MaxWells},
        h \in 1..MaxHistoryMonths}
MeterConfigs ==
    {[empty_config EXCEPT !.num_facilities = f, !.num_meter_stations = m] :
        f \in 0..MaxFacilities, m \in 0..MaxMeterStations}
OptionalConfigs ==
    {[b EXCEPT ![k] = n] :
        b \in {base_config, empty_config}, k \in OptionalKinds, n \in 0..MaxOptional}
GenConfigs ==
    {c \in WellConfigs \cup ScenarioConfigs \cup MeterConfigs \cup OptionalConfigs :
        \A k \in OptionalKinds : c[k] <= optional_form_max[k]}

GenInit ==
    /\ ClientIdle /\ SqlIdle /\ AppIdle
    /\ gpc = "start"
    /\ config \in GenConfigs
    /\ xml_parts = << >> /\ gen_raised = "" /\ extracted = NoExtraction
    /\ validation = NoValidation /\ num_scheduled = -1

\* one call of generate_synthetic_valnav_xml: it raises, or returns the document
generate ==
    /\ gpc = "start"
    /\ IF generate_raises(config) # ""
       THEN /\ gen_raised' = generate_raises(config)
            /\ gpc' = "raised"
            /\ UNCHANGED <<xml_parts, num_scheduled>>
       ELSE /\ \E d \in Draws(config) :
                /\ xml_parts' = document(config, d)
                /\ num_scheduled' = Cardinality(d.scheduled)
            /\ gpc' = "generated"
            /\ UNCHANGED gen_raised
    /\ UNCHANGED <<clientVars, sqlVars, appVars, config, extracted, validation>>

-----------------------------------------------------------------------------
(* Documents stored in the volume *)

\* a child element of a section: n elements of this tag, each holding `prices`
\* AnnualPrice elements under its PriceCommodity children
Kids(tag, n, prices) == [tag |-> tag, n |-> n, prices |-> prices]
Section(tag, children) == [tag |-> tag, children |-> children]
Doc(wellformed, sections) == [wellformed |-> wellformed, sections |-> sections]

\* the documents of the model
Docs == <<
    \* not well-formed: ET.fromstring raises
    Doc(FALSE, << >>),
    \* well-formed, none of the known sections
    Doc(TRUE, <<Section("Extras", <<Kids("Extra", 1, 0)>>)>>),
    \* a WellsAndGroups section holding a group and no well; one facility (after
    \* the wells in the document, before them in entity_mappings); an empty
    \* Companies section; a section of an unknown tag
    Doc(TRUE, <<Section("WellsAndGroups", <<Kids("Group", 1, 0)>>),
                Section("Facilities", <<Kids("Facility", 1, 0)>>),
                Section("Companies", << >>),
                Section("Extras", <<Kids("Extra", 1, 0)>>)>>),
    \* one price deck with 3 commodities of 6 annual prices
    Doc(TRUE, <<Section("PriceDecks", <<Kids("PriceDeck", 1, 18)>>)>>),
    \* 101 wells and a group: two INSERT batches
    Doc(TRUE, <<Section("WellsAndGroups", <<Kids("Well", batch_size + 1, 0),
                                            Kids("Group", 1, 0)>>)>>)
>>

\* what files.download and the response normalisation may produce
DownloadOutcomes ==
    {[kind |-> "text", exc |-> Exc("", << >>)],          \* contents read as text
     [kind |-> "empty", exc |-> Exc("", << >>)],         \* the object is empty
     [kind |-> "unreadable", exc |-> Exc("", << >>)],    \* no strategy could read contents
     [kind |-> "undecodable", exc |-> Exc("", << >>)]}   \* decode('utf-8') raises
    \cup {[kind |-> "raise", exc |-> e] : e \in RemoteErrors}

\* contents that no strategy can read are returned as str(contents)
read_file_from_volume_lossy(out, d) ==
    CASE out.kind \in {"text", "unreadable"} -> Return(TRUE, d)
      [] out.kind \in {"empty", "undecodable"} -> Return(TRUE, 0)
      [] out.kind = "raise" -> Raise(Exc("UnboundLocalError", Text_unbound))

\* _read_file_from_volume: the text (here: the document's index, 0 for "") or an
\* exception.  When files.download itself raises, the handler's
\* logger.error(f"... {type(response)}") reads the local `response` that was never
\* bound, so the handler raises UnboundLocalError instead of returning "".
read_file_from_volume(out, d) ==
    CASE out.kind = "text" -> Return(TRUE, d)
      [] out.kind = "empty" -> Return(TRUE, 0)
      [] out.kind = "unreadable" -> Return(TRUE, 0)
      [] out.kind = "undecodable" -> Return(TRUE, 0)
      [] out.kind = "raise" -> Raise(Exc("UnboundLocalError", Text_unbound))

\* entity_mappings, in dict order
entity_mappings == <<
    <<"PriceDecks", "price_decks_metadata">>, <<"Scenarios", "scenarios">>,
    <<"Facilities", "facilities">>, <<"WellsAndGroups", "wells">>,
    <<"BulkWellSchedules", "bulk_well_schedules">>, <<"Currencies", "currencies">>,
    <<"Countries", "countries">>, <<"Companies", "companies">>,
    <<"FiscalRegimes", "fiscal_regimes">>, <<"MeterStations", "meter_stations">>,
    <<"TransportationAreas", "transportation_areas">>, <<"TypeWells", "type_wells">>,
    <<"TaxPools", "tax_pools">>, <<"BatchDefinitions", "batch_definitions">>,
    <<"ChangeRecordCategories", "change_record_categories">>,
    <<"CustomDataFields", "custom_data_fields">>, <<"Hierarchies", "hierarchies">>,
    <<"Rollups", "rollups">> >>

\* the keys of all_table_definitions
all_table_definitions ==
    {"wells", "facilities", "scenarios", "price_decks_metadata",
     "price_decks_annual_prices", "bulk_well_schedules", "currencies", "countries",
     "companies", "fiscal_regimes", "meter_stations", "transportation_areas",
     "type_wells", "tax_pools", "batch_definitions", "change_record_categories",
     "custom_data_fields", "hierarchies", "rollups"}

\* root.find(tag): the first top-level section with this tag, 0 for None
RECURSIVE FindFrom(_, _, _)
FindFrom(sections, tag, i) ==
    IF i > Len(sections) THEN 0
    ELSE IF sections[i].tag = tag THEN i
    ELSE FindFrom(sections, tag, i + 1)
Find(doc, tag) == FindFrom(doc.sections, tag, 1)

RECURSIVE Sum(_)
Sum(ns) == IF ns = << >> THEN 0 ELSE Head(ns) + Sum(Tail(ns))

\* a section without children counts as one child
ChildCount_atLeastOne(section) ==
    LET n == Sum([i \in 1..Len(section.children) |-> section.children[i].n])
    IN  IF n = 0 THEN 1 ELSE n

\* len(element)
ChildCount(section) ==
    LET one(c) == c.n IN Sum([i \in 1..Len(section.children) |-> one(section.children[i])])

\* len(_extract_entity_data(element, entity_type))
extract_entity_data(section, entity_type) ==
    LET wells(c) == IF c.tag = "Well" THEN c.n ELSE 0
        schedules(c) == IF c.tag = "WellSchedule" THEN c.n ELSE 0
        others(c) == IF c.tag \in {"Well", "Group"} THEN 0 ELSE c.n
    IN  IF entity_type = "WellsAndGroups" THEN Sum([i \in 1..Len(section.children) |-> wells(section.children[i])])
        ELSE IF entity_type = "BulkWellSchedules"
             THEN Sum([i \in 1..Len(section.children) |-> schedules(section.children[i])])
        ELSE Sum([i \in 1..Len(section.children) |-> others(section.children[i])])

\* len(_extract_annual_prices_data(price_decks_element))
extract_annual_prices_data(section) ==
    LET prices(c) == IF c.tag = "PriceDeck" THEN c.n * c.prices ELSE 0
    IN  Sum([i \in 1..Len(section.children) |-> prices(section.children[i])])

Entity(table, n) == [table |-> table, n |-> n]
Keys(entities) == [i \in 1..Len(entities) |-> entities[i].table]
HasKey(entities, table) == \E i \in 1..Len(entities) : entities[i].table = table
RecordsOf(entities, table) ==
    LET i == CHOOSE j \in 1..Len(entities) : entities[j].table = table
    IN  entities[i].n

RECURSIVE parse_sections(_, _)
parse_sections(doc, i) ==
    IF i > Len(entity_mappings) THEN << >>
    ELSE LET xml_element == entity_mappings[i][1]
             table_name == entity_mappings[i][2]
             at == Find(doc, xml_element)
         IN  (IF at # 0 /\ ChildCount(doc.sections[at]) > 0
              THEN <<Entity(table_name,
                            extract_entity_data(doc.sections[at], xml_element))>>
              ELSE << >>)
             \o parse_sections(doc, i + 1)

\* a document that cannot be parsed is taken for a document with one well
parse_xml_entities_guessing(doc) ==
    IF ~doc.wellformed THEN <<Entity("wells", 1)>>
    ELSE LET found == parse_sections(doc, 1)
             annual == IF HasKey(found, "price_decks_metadata")
                       THEN extract_annual_prices_data(
                                doc.sections[Find(doc, "PriceDecks")])
                       ELSE 0
         IN  IF annual > 0
             THEN Append(found, Entity("price_decks_annual_prices", annual))
             ELSE found

\* _parse_xml_entities: {} when parsing raises
parse_xml_entities(doc) ==
    IF ~doc.wellformed THEN << >>
    ELSE LET found == parse_sections(doc, 1)
             annual == IF HasKey(found, "price_decks_metadata")
                       THEN extract_annual_prices_data(
                                doc.sections[Find(doc, "PriceDecks")])
                       ELSE 0
         IN  IF annual > 0
             THEN Append(found, Entity("price_decks_annual_prices", annual))
             ELSE found

-----------------------------------------------------------------------------
(* The generated document read back by _parse_xml_entities *)

Element(tag, attrs, children, text) ==
    [tag |-> tag, attrs |-> attrs, children |-> children, text |-> text]

\* the elements that start at line i and follow each other up to the closing
\* tag of their parent: [nodes, next, ok]
RECURSIVE Siblings(_, _)
Siblings(lines, i) ==
    IF i > Len(lines) \/ lines[i].kind = "close"
    THEN [nodes |-> << >>, next |-> i, ok |-> TRUE]
    ELSE IF lines[i].kind \in {"empty", "text"}
    THEN LET rest == Siblings(lines, i + 1)
         IN  [nodes |-> <<Element(lines[i].tag, lines[i].attrs, << >>, lines[i].text)>>
                        \o rest.nodes,
              next |-> rest.next, ok |-> rest.ok]
    ELSE IF lines[i].kind = "open"
    THEN LET inner == Siblings(lines, i + 1)
             closed == /\ inner.ok /\ inner.next <= Len(lines)
                       /\ lines[inner.next].tag = lines[i].tag
             rest == Siblings(lines, inner.next + 1)
         IN  IF closed
             THEN [nodes |-> <<Element(lines[i].tag, lines[i].attrs, inner.nodes, << >>)>>
                             \o rest.nodes,
                   next |-> rest.next, ok |-> rest.ok]
             ELSE [nodes |-> << >>, next |-> Len(lines) + 1, ok |-> FALSE]
    ELSE [nodes |-> << >>, next |-> Len(lines) + 1, ok |-> FALSE]

\* ET.fromstring: the root element, or a ParseError (wellformed = FALSE)
fromstring(lines) ==
    LET body == IF lines # << >> /\ lines[1].kind = "declaration" THEN Tail(lines)
                ELSE lines
        top == Siblings(body, 1)
        wellformed == top.ok /\ top.next = Len(body) + 1 /\ Len(top.nodes) = 1
    IN  [wellformed |-> wellformed,
         root |-> IF wellformed THEN top.nodes[1] ELSE Element("", << >>, << >>, << >>)]

findall(element, tag) == SelectSeq(element.children, LAMBDA ch : ch.tag = tag)

\* element.get(name, default)
Get(element, name, default) ==
    IF \E i \in 1..Len(element.attrs) : element.attrs[i][1] = name
    THEN element.attrs[CHOOSE i \in 1..Len(element.attrs) : element.attrs[i][1] = name][2]
    ELSE default

\* the parsed tree as a stored document: per section its children, a price
\* deck with the number of its AnnualPrice elements
AsDoc(parsed) ==
    LET annual(deck) ==
            Sum([k \in 1..Len(findall(deck, "PriceCommodity")) |->
                    Len(findall(findall(deck, "PriceCommodity")[k], "AnnualPrice"))])
        kids(section) ==
            [j \in 1..Len(section.children) |->
                Kids(section.children[j].tag, 1,
                     IF section.children[j].tag = "PriceDeck"
                     THEN annual(section.children[j]) ELSE 0)]
    IN  IF ~parsed.wellformed THEN Doc(FALSE, << >>)
        ELSE Doc(TRUE, [i \in 1..Len(parsed.root.children) |->
                           Section(parsed.root.children[i].tag,
                                   kids(parsed.root.children[i]))])

\* price_data of _extract_annual_prices_data
annual_price_record(price_deck, commodity, annual_price) ==
    [PriceDeckID |-> Get(price_deck, "ID", ""),
     Commodity |-> Get(commodity, "Name", ""),
     Unit |-> Get(commodity, "Unit", ""),
     Year |-> Get(annual_price, "Year", ""),
     Value |-> Get(annual_price, "Value", "")]

\* _extract_annual_prices_data: the records in document order
annual_price_records(price_decks_element) ==
    LET decks == findall(price_decks_element, "PriceDeck")
        of_commodity(deck, commodity) ==
            [y \in 1..Len(findall(commodity, "AnnualPrice")) |->
                annual_price_record(deck, commodity, findall(commodity, "AnnualPrice")[y])]
        of_deck(deck) ==
            Flatten([k \in 1..Len(findall(deck, "PriceCommodity")) |->
                        of_commodity(deck, findall(deck, "PriceCommodity")[k])])
    IN  Flatten([i \in 1..Len(decks) |-> of_deck(decks[i])])

\* _parse_xml_entities on the generated text: the keys with their record
\* counts, and the annual price records
parse_generated(lines) ==
    LET parsed == fromstring(lines)
        entities == parse_xml_entities(AsDoc(parsed))
    IN  [entities |-> entities,
         annual_prices |->
            IF HasKey(entities, "price_decks_annual_prices")
            THEN annual_price_records(findall(parsed.root, "PriceDecks")[1])
            ELSE << >>]

extract ==
    /\ gpc = "generated"
    /\ extracted' = parse_generated(xml_parts)
    /\ gpc' = "extracted"
    /\ UNCHANGED <<clientVars, sqlVars, appVars, config, xml_parts, gen_raised, validation, num_scheduled>>

GenNext == generate \/ extract

GenSpec == GenInit /\ [][GenNext]_vars

\* the list of _get_table_definitions, in list order
legacy_catalog ==
    <<"wells", "facilities", "scenarios", "price_decks_metadata",
      "price_decks_annual_prices", "bulk_well_schedules", "currencies", "countries",
      "companies", "fiscal_regimes", "meter_stations", "transportation_areas",
      "type_wells", "tax_pools", "batch_definitions", "change_record_categories",
      "custom_data_fields", "hierarchies", "rollups">>

\* only the keys that hold at least one record get a definition
get_table_definitions_for_entities_nonEmptyOnly(entities) ==
    LET filled == SelectSeq(entities, LAMBDA e : e.n > 0)
        known(t) == t \in all_table_definitions
    IN  SelectSeq(Keys(filled), known)

\* _get_table_definitions_for_entities: the keys that have a definition
get_table_definitions_for_entities(entities) ==
    LET known(t) == t \in all_table_definitions IN SelectSeq(Keys(entities), known)

\* the batches of _generate_insert_statements: range(0, n, batch_size)
RECURSIVE BatchesFrom(_, _)
BatchesFrom(n, i) ==
    IF i >= n THEN << >>
    ELSE <<IF n - i < batch_size THEN n - i ELSE batch_size>>
         \o BatchesFrom(n, i + batch_size)

\* len(_generate_insert_statements(...)) for n records of a catalog table
generate_insert_statements(n) == IF n = 0 THEN << >> ELSE BatchesFrom(n, 0)

-----------------------------------------------------------------------------
(* Warehouses *)

WarehouseStates == {"RUNNING", "STOPPED", "STARTING", "DELETED", "NONE"}

RECURSIVE SeqsUpTo(_, _)
SeqsUpTo(S, n) ==
    IF n = 0 THEN {<< >>}
    ELSE LET shorter == SeqsUpTo(S, n - 1)
         IN  shorter \cup {Append(s, x) : s \in {t \in shorter : Len(t) = n - 1}, x \in S}

\* warehouses.list(): raises, or yields warehouses; oneShot = the result is an
\* iterator that can be consumed once (a generator), not a list
WarehouseOutcomes ==
    {[kind |-> "raise", ws |-> << >>, oneShot |-> FALSE, exc |-> e] :
        e \in {Exc("DatabricksError", Text_denied)}}
    \cup {[kind |-> "return", ws |-> w, oneShot |-> o, exc |-> Exc("", << >>)] :
        w \in SeqsUpTo(WarehouseStates, MaxWarehouses), o \in BOOLEAN}

RECURSIVE FirstIn(_, _, _)
FirstIn(ws, states, i) ==
    IF i > Len(ws) THEN 0
    ELSE IF ws[i] \in states THEN i
    ELSE FirstIn(ws, states, i + 1)

\* _get_default_warehouse_id: the warehouse's position in the listing, or the
\* wrapped exception.  The second loop starts where the first one left the
\* iterator: at the start for a list, at the end for a one-shot iterator.
get_default_warehouse_id(out) ==
    IF out.kind = "raise" THEN Raise(Exc("Exception", out.exc.text))
    ELSE LET running == FirstIn(out.ws, {"RUNNING"}, 1)
             second == FirstIn(out.ws, {"STOPPED", "STARTING"},
                               IF out.oneShot THEN Len(out.ws) + 1 ELSE 1)
         IN  IF running # 0 THEN Return(TRUE, running)
             ELSE IF second # 0 THEN Return(TRUE, second)
             ELSE Raise(Exc("Exception", Text_NoWarehouses))

-----------------------------------------------------------------------------
(* schemas.create *)

SchemaOutcomes ==
    {Return(TRUE, "schema")}
    \cup {Raise(e) : e \in {Exc("DatabricksError", Text_AlreadyExists),
                            Exc("DatabricksError", Text_denied),
                            Exc("ConnectionError", Text_unavailable)}}

\* any error of schemas.create is taken for "already exists"
schema_create_outcome_lenient(out) ==
    IF out.kind = "return" THEN "created" ELSE "exists"

\* the try/except around schemas.create: "created", "exists" or "error"
schema_create_outcome(out) ==
    IF out.kind = "return" THEN "created"
    ELSE IF IsInstance(out.msg, "Exception")
            /\ Contains(Lower(out.msg.text), Sub_already_exists)
         THEN "exists"
    ELSE "error"

-----------------------------------------------------------------------------
(* _wait_for_statement_completion *)

StatementStates == {"SUCCEEDED", "FAILED", "CANCELED", "PENDING", "RUNNING", "CLOSED"}
NoError == << >>

\* what one get_statement call may give: a state with the status's error field
\* (NoError when the field is empty), no status at all, or an exception
StatusOutcomes ==
    {[kind |-> "state", state |-> s, error |-> NoError, exc |-> Exc("", << >>)] :
        s \in StatementStates}
    \cup {[kind |-> "state", state |-> s, error |-> Text_syntax, exc |-> Exc("", << >>)] :
        s \in {"FAILED", "CANCELED"}}
    \cup {[kind |-> "nostatus", state |-> "", error |-> NoError, exc |-> Exc("", << >>)]}
    \cup {[kind |-> "raise", state |-> "", error |-> NoError, exc |-> e] :
        e \in {Exc("DatabricksError", Text_unavailable),
               Exc("DatabricksError", Text_StmtFailedLookalike)}}

StateText(s) == <<s>>

\* the body of the try in one iteration: "return", "sleep" (sleep and continue),
\* or an exception
poll_try(out) ==
    IF out.kind = "raise" THEN Raise(out.exc)
    ELSE IF out.kind = "nostatus" THEN [kind |-> "sleep"]
    ELSE IF out.state = "SUCCEEDED" THEN [kind |-> "return"]
    ELSE IF out.state \in {"FAILED", "CANCELED"}
         THEN Raise(Exc("Exception",
                  Text_StatementFailedColon
                  \o (IF out.error # NoError THEN out.error ELSE Text_Unknown_error)))
    ELSE IF out.state \in {"PENDING", "RUNNING"} THEN [kind |-> "sleep"]
    ELSE Raise(Exc("Exception", Text_Unknown_state \o StateText(out.state)))

\* the handler swallows every exception
poll_except_swallowAll(r) ==
    IF r.kind = "raise" THEN [kind |-> "sleep"] ELSE r

\* except Exception as e: re-raise when "Statement failed" is in str(e), else
\* sleep and continue
poll_except(r) ==
    IF r.kind = "raise" /\ IsInstance(r.msg, "Exception")
    THEN IF Contains(r.msg.text, Sub_Statement_failed) THEN r ELSE [kind |-> "sleep"]
    ELSE r

poll_iteration(out) == poll_except(poll_try(out))

\* while time.time() - start_time < timeout
poll_loop_continues(t) == t < timeout

PollPcs == {"xml_create_poll", "xml_insert_poll", "legacy_create_poll"}
IsTerminalFailure(out) == out.kind = "state" /\ out.state \in {"FAILED", "CANCELED"}
\* the else branch of the state test: none of the five states the poll knows
IsUnknownState(out) ==
    /\ out.kind = "state"
    /\ out.state \notin {"SUCCEEDED", "FAILED", "CANCELED", "PENDING", "RUNNING"}
-----------------------------------------------------------------------------
(* Results of the schema-creation paths *)

\* without SQL execution the message lists the created tables (there are none)
xml_message_tablesOnly(available, created, populated, failed, entities) ==
    [head |-> "Schema created from XML",
     created |-> IF available THEN created ELSE << >>,
     populated |-> IF available THEN populated ELSE << >>,
     failed |-> IF available THEN failed ELSE << >>,
     notebook_for |-> IF available THEN << >> ELSE created,
     hint |-> IF available THEN "tables match the XML" ELSE "use the notebook"]

\* the message composed at the end of _create_valnav_schema_from_xml_sdk
xml_message(available, created, populated, failed, entities) ==
    [head |-> "Schema created from XML",
     created |-> IF available THEN created ELSE << >>,
     populated |-> IF available THEN populated ELSE << >>,
     failed |-> IF available THEN failed ELSE << >>,
     notebook_for |-> IF available THEN << >> ELSE Keys(entities),
     hint |-> IF available THEN "tables match the XML" ELSE "use the notebook"]

\* the message composed at the end of _create_valnav_schema_sdk
legacy_message(available, created, failed, definitions) ==
    [head |-> "Schema created successfully",
     created |-> IF available THEN created ELSE << >>,
     populated |-> << >>,
     failed |-> IF available THEN failed ELSE << >>,
     notebook_for |-> IF available THEN << >> ELSE definitions,
     hint |-> IF available /\ failed = << >> THEN "" ELSE "use the notebook"]

\* except Exception of the _sdk method, then except Exception of the public method
sdk_boundary(r, prefix) ==
    IF r.kind = "raise" /\ IsInstance(r.msg, "Exception")
    THEN Return(FALSE, <<prefix, r.msg.text>>)
    ELSE r
xml_boundary(r) ==
    sdk_boundary(sdk_boundary(r, "Error creating schema from XML: "),
                 "Error creating schema from XML: ")
legacy_boundary(r) ==
    sdk_boundary(sdk_boundary(r, "Error creating schema: "), "Error creating schema: ")

\* _get_table_definitions: the legacy path runs over the first MaxLegacyTables
\* definitions of the catalog
get_table_definitions == SubSeq(legacy_catalog, 1, MaxLegacyTables)

FailedEntry(table, e) == [table |-> table, text |-> e.text]

-----------------------------------------------------------------------------
(* create_valnav_schema_from_xml *)

\* the path reports failure when a table failed
FinishXml_failOnFailures(created, failed, populated) ==
    /\ created_tables' = created
    /\ failed_tables' = failed
    /\ populated_tables' = populated
    /\ UNCHANGED <<ti, si>>
    /\ Finish(xml_boundary(Return(failed = << >>,
          xml_message(sql_execution_available', created, populated, failed,
                      entities_present))))

\* the end of the document-driven path: compose the message and return
FinishXml(created, failed, populated) ==
    /\ created_tables' = created
    /\ failed_tables' = failed
    /\ populated_tables' = populated
    /\ UNCHANGED <<ti, si>>
    /\ Finish(xml_boundary(Return(TRUE,
          xml_message(sql_execution_available', created, populated, failed,
                      entities_present))))

\* the populate loop from created[j] on: a table whose record list gives no
\* INSERT statement is appended to populated_tables without any remote call
RECURSIVE SkipNoInsert(_, _, _)
SkipNoInsert(j, created, populated) ==
    IF j > Len(created) THEN [j |-> j, populated |-> populated]
    ELSE IF generate_insert_statements(RecordsOf(entities_present, created[j])) = << >>
         THEN SkipNoInsert(j + 1, created, Append(populated, created[j]))
    ELSE [j |-> j, populated |-> populated]

PopulateFrom(j, created, failed, populated) ==
    LET sk == SkipNoInsert(j, created, populated) IN
    IF sk.j > Len(created)
    THEN FinishXml(created, failed, sk.populated)
    ELSE /\ pc' = "xml_insert"
         /\ ti' = sk.j
         /\ si' = 1
         /\ created_tables' = created
         /\ failed_tables' = failed
         /\ populated_tables' = sk.populated
         /\ UNCHANGED <<ret, escaped>>

\* after the create loop: "if sql_execution_available and created_tables"
StartPopulate(created, failed) ==
    IF sql_execution_available' /\ created # << >>
    THEN PopulateFrom(1, created, failed, << >>)
    ELSE FinishXml(created, failed, << >>)

\* every table the create loop has passed counts as created
NextCreate_assumeCreated(i, created, failed) ==
    IF i < Len(table_definitions)
    THEN /\ pc' = "xml_create"
         /\ ti' = i + 1
         /\ created_tables' = SubSeq(table_definitions, 1, i)
         /\ failed_tables' = failed
         /\ UNCHANGED <<populated_tables, si, ret, escaped>>
    ELSE StartPopulate(SubSeq(table_definitions, 1, i), failed)
\* the create loop moves past table_definitions[i]
NextCreate(i, created, failed) ==
    IF i < Len(table_definitions)
    THEN /\ pc' = "xml_create"
         /\ ti' = i + 1
         /\ created_tables' = created
         /\ failed_tables' = failed
         /\ UNCHANGED <<populated_tables, si, ret, escaped>>
    ELSE StartPopulate(created, failed)

\* Step 1 and 2: read the document, parse it
xml_read ==
    /\ pc = "idle"
    /\ UNCHANGED <<genVars, sqlVars, appVars>>
    /\ \E p \in {Path_ok}, d \in 1..Len(Docs), out \in DownloadOutcomes :
        LET content == read_file_from_volume(out, d) IN
        /\ op' = "create_valnav_schema_from_xml"
        /\ path' = p
        /\ calls' = Append(calls, Call("files.download", out.kind, out.exc.text))
        /\ IF content.kind = "raise"
           THEN /\ Finish(xml_boundary(content))
                /\ UNCHANGED <<docId, entities_present>>
           ELSE IF content.msg = 0
           THEN /\ Finish(xml_boundary(
                     Return(FALSE, <<"Failed to read XML file from volume: ", p>>)))
                /\ UNCHANGED <<docId, entities_present>>
           ELSE /\ docId' = content.msg
                /\ entities_present' = parse_xml_entities(Docs[content.msg])
                /\ pc' = "xml_schema"
                /\ UNCHANGED <<ret, escaped>>
    /\ UNCHANGED <<table_definitions, schemaOutcome, sql_execution_available,
                   warehouse_id, created_tables, failed_tables, populated_tables,
                   stmtFailed, ti, si, elapsed, pollLog>>

\* Step 3: create the schema; then build the table definitions
xml_create_schema ==
    /\ pc = "xml_schema"
    /\ UNCHANGED <<genVars, sqlVars, appVars>>
    /\ \E out \in SchemaOutcomes :
        LET how == schema_create_outcome(out) IN
        /\ calls' = Append(calls, Call("schemas.create", out.kind, ErrText(out)))
        /\ schemaOutcome' = how
        /\ IF how = "error"
           THEN /\ Finish(xml_boundary(
                     Return(FALSE, <<"Failed to create schema: ", out.msg.text>>)))
                /\ UNCHANGED table_definitions
           ELSE /\ table_definitions' = get_table_definitions_for_entities(entities_present)
                /\ pc' = "xml_warehouse"
                /\ UNCHANGED <<ret, escaped>>
    /\ UNCHANGED <<op, path, docId, entities_present, sql_execution_available,
                   warehouse_id, created_tables, failed_tables, populated_tables,
                   stmtFailed, ti, si, elapsed, pollLog>>

\* Step 4, first half: is SQL execution available
xml_warehouse ==
    /\ pc = "xml_warehouse"
    /\ UNCHANGED <<genVars, sqlVars, appVars>>
    /\ \E out \in WarehouseOutcomes :
        LET w == get_default_warehouse_id(out) IN
        /\ calls' = Append(calls, Call("warehouses.list", out.kind, out.exc.text))
        /\ sql_execution_available' = (w.kind = "return")
        /\ warehouse_id' = IF w.kind = "return" THEN w.msg ELSE 0
        /\ IF w.kind = "return" /\ table_definitions # << >>
           THEN /\ pc' = "xml_create"
                /\ ti' = 1
                /\ UNCHANGED <<created_tables, failed_tables, populated_tables, si,
                               ret, escaped>>
           ELSE StartPopulate(<< >>, << >>)
    /\ UNCHANGED <<op, path, docId, entities_present, table_definitions,
                   schemaOutcome, stmtFailed, elapsed, pollLog>>

\* Step 4: submit the CREATE TABLE of table_definitions[ti]
xml_execute_create ==
    /\ pc = "xml_create"
    /\ UNCHANGED <<genVars, sqlVars, appVars>>
    /\ UNCHANGED <<op, path, docId, entities_present, table_definitions,
                   schemaOutcome, sql_execution_available, warehouse_id>>
    /\ \E out \in {Return(TRUE, "statement_id")}
                  \cup {Raise(e) : e \in {Exc("DatabricksError", Text_denied)}} :
        /\ calls' = Append(calls, Stmt("CREATE", table_definitions[ti], 0, out))
        /\ IF out.kind = "raise"
           THEN /\ stmtFailed' = stmtFailed \cup {<<"CREATE", table_definitions[ti]>>}
                /\ NextCreate(ti, created_tables,
                       Append(failed_tables, FailedEntry(table_definitions[ti], out.msg)))
                /\ UNCHANGED <<elapsed, pollLog>>
           ELSE /\ pc' = "xml_create_poll"
                /\ elapsed' = 0
                /\ pollLog' = NewPoll
                /\ UNCHANGED <<created_tables, failed_tables, populated_tables, ti, si,
                               ret, escaped, stmtFailed>>

\* Step 5: submit INSERT statement si of created_tables[ti]
xml_execute_insert ==
    /\ pc = "xml_insert"
    /\ UNCHANGED <<genVars, sqlVars, appVars>>
    /\ UNCHANGED <<op, path, docId, entities_present, table_definitions,
                   schemaOutcome, sql_execution_available, warehouse_id>>
    /\ \E out \in {Return(TRUE, "statement_id")}
                  \cup {Raise(e) : e \in {Exc("DatabricksError", Text_denied)}} :
        /\ calls' = Append(calls, Stmt("INSERT", created_tables[ti], si, out))
        /\ IF out.kind = "raise"
           THEN /\ stmtFailed' = stmtFailed \cup {<<"INSERT", created_tables[ti]>>}
                /\ PopulateFrom(ti + 1, created_tables, failed_tables, populated_tables)
                /\ UNCHANGED <<elapsed, pollLog>>
           ELSE /\ pc' = "xml_insert_poll"
                /\ elapsed' = 0
                /\ pollLog' = NewPoll
                /\ UNCHANGED <<created_tables, failed_tables, populated_tables, ti, si,
                               ret, escaped, stmtFailed>>

-----------------------------------------------------------------------------
(* create_valnav_schema (legacy) *)

FinishLegacy(created, failed) ==
    /\ created_tables' = created
    /\ failed_tables' = failed
    /\ UNCHANGED <<populated_tables, ti, si>>
    /\ Finish(legacy_boundary(Return(TRUE,
          legacy_message(sql_execution_available', created, failed,
                         table_definitions))))

NextLegacy(i, created, failed) ==
    IF i < Len(table_definitions)
    THEN /\ pc' = "legacy_create"
         /\ ti' = i + 1
         /\ created_tables' = created
         /\ failed_tables' = failed
         /\ UNCHANGED <<populated_tables, si, ret, escaped>>
    ELSE FinishLegacy(created, failed)

\* Step 1: create the schema; then take the whole catalog
legacy_create_schema ==
    /\ pc = "idle"
    /\ UNCHANGED <<genVars, sqlVars, appVars>>
    /\ \E out \in SchemaOutcomes :
        LET how == schema_create_outcome(out) IN
        /\ op' = "create_valnav_schema"
        /\ calls' = Append(calls, Call("schemas.create", out.kind, ErrText(out)))
        /\ schemaOutcome' = how
        /\ IF how = "error"
           THEN /\ Finish(legacy_boundary(
                     Return(FALSE, <<"Failed to create schema: ", out.msg.text>>)))
                /\ UNCHANGED table_definitions
           ELSE /\ table_definitions' = get_table_definitions
                /\ pc' = "legacy_warehouse"
                /\ UNCHANGED <<ret, escaped>>
    /\ UNCHANGED <<path, docId, entities_present, sql_execution_available,
                   warehouse_id, created_tables, failed_tables, populated_tables,
                   stmtFailed, ti, si, elapsed, pollLog>>

\* Step 2, first half: is SQL execution available
legacy_warehouse ==
    /\ pc = "legacy_warehouse"
    /\ UNCHANGED <<genVars, sqlVars, appVars>>
    /\ \E out \in WarehouseOutcomes :
        LET w == get_default_warehouse_id(out) IN
        /\ calls' = Append(calls, Call("warehouses.list", out.kind, out.exc.text))
        /\ sql_execution_available' = (w.kind = "return")
        /\ warehouse_id' = IF w.kind = "return" THEN w.msg ELSE 0
        /\ IF w.kind = "return" /\ table_definitions # << >>
           THEN /\ pc' = "legacy_create"
                /\ ti' = 1
                /\ UNCHANGED <<created_tables, failed_tables, populated_tables, si,
                               ret, escaped>>
           ELSE FinishLegacy(<< >>, << >>)
    /\ UNCHANGED <<op, path, docId, entities_present, table_definitions,
                   schemaOutcome, stmtFailed, elapsed, pollLog>>

\* Step 2: submit the CREATE TABLE of table_definitions[ti]
legacy_execute_create ==
    /\ pc = "legacy_create"
    /\ UNCHANGED <<genVars, sqlVars, appVars>>
    /\ UNCHANGED <<op, path, docId, entities_present, table_definitions,
                   schemaOutcome, sql_execution_available, warehouse_id>>
    /\ \E out \in {Return(TRUE, "statement_id")}
                  \cup {Raise(e) : e \in {Exc("DatabricksError", Text_denied)}} :
        /\ calls' = Append(calls, Stmt("CREATE", table_definitions[ti], 0, out))
        /\ IF out.kind = "raise"
           THEN /\ stmtFailed' = stmtFailed \cup {<<"CREATE", table_definitions[ti]>>}
                /\ NextLegacy(ti, created_tables,
                       Append(failed_tables, FailedEntry(table_definitions[ti], out.msg)))
                /\ UNCHANGED <<elapsed, pollLog>>
           ELSE /\ pc' = "legacy_create_poll"
                /\ elapsed' = 0
                /\ pollLog' = NewPoll
                /\ UNCHANGED <<created_tables, failed_tables, populated_tables, ti, si,
                               ret, escaped, stmtFailed>>

-----------------------------------------------------------------------------
(* The poll inside the loops *)

\* the poll ended with r (a return or an exception): back in the caller's loop
PollEnd(r) ==
    CASE pc = "xml_create_poll" ->
            IF r.kind = "return"
            THEN /\ NextCreate(ti, Append(created_tables, table_definitions[ti]),
                               failed_tables)
                 /\ UNCHANGED stmtFailed
            ELSE /\ NextCreate(ti, created_tables,
                        Append(failed_tables, FailedEntry(table_definitions[ti], r.msg)))
                 /\ stmtFailed' = stmtFailed \cup {<<"CREATE", table_definitions[ti]>>}
      [] pc = "xml_insert_poll" ->
            IF r.kind = "return"
            THEN IF si < Len(generate_insert_statements(
                               RecordsOf(entities_present, created_tables[ti])))
                 THEN /\ pc' = "xml_insert"
                      /\ si' = si + 1
                      /\ UNCHANGED <<created_tables, failed_tables, populated_tables,
                                     ti, ret, escaped, stmtFailed>>
                 ELSE /\ PopulateFrom(ti + 1, created_tables, failed_tables,
                                      Append(populated_tables, created_tables[ti]))
                      /\ UNCHANGED stmtFailed
            ELSE /\ stmtFailed' = stmtFailed \cup {<<"INSERT", created_tables[ti]>>}
                 /\ PopulateFrom(ti + 1, created_tables, failed_tables, populated_tables)
      [] pc = "legacy_create_poll" ->
            IF r.kind = "return"
            THEN /\ NextLegacy(ti, Append(created_tables, table_definitions[ti]),
                               failed_tables)
                 /\ UNCHANGED stmtFailed
            ELSE /\ NextLegacy(ti, created_tables,
                        Append(failed_tables, FailedEntry(table_definitions[ti], r.msg)))
                 /\ stmtFailed' = stmtFailed \cup {<<"CREATE", table_definitions[ti]>>}

\* one iteration of the while loop: a status check and what follows it (time
\* passes in time.sleep only: a status check is taken to answer at once)
poll_check ==
    /\ pc \in PollPcs
    /\ UNCHANGED <<genVars, sqlVars, appVars>>
    /\ UNCHANGED <<op, path, calls, docId, entities_present, table_definitions,
                   schemaOutcome, sql_execution_available, warehouse_id>>
    /\ poll_loop_continues(elapsed)
    /\ \E out \in StatusOutcomes :
        LET r == poll_iteration(out)
            log == [pollLog EXCEPT
                      !.after = pollLog.after \/ pollLog.terminal,
                      !.terminal = pollLog.terminal \/ IsTerminalFailure(out),
                      !.error = IF IsTerminalFailure(out) THEN out.error ELSE @,
                      !.last = IF out.kind = "raise" THEN "raise"
                               ELSE IF IsUnknownState(out) THEN "unknown"
                               ELSE "other",
                      !.succeeded = pollLog.succeeded
                                    \/ (out.kind = "state" /\ out.state = "SUCCEEDED")]
        IN
        /\ IF r.kind = "sleep"
           THEN /\ elapsed' = elapsed + poll_sleep
                /\ pollLog' = log
                /\ UNCHANGED <<pc, ret, escaped, created_tables, failed_tables,
                               populated_tables, stmtFailed, ti, si>>
           ELSE /\ elapsed' = 0
                /\ pollLog' = [log EXCEPT
                                 !.result = IF r.kind = "return" THEN "returned"
                                            ELSE "raised",
                                 !.text = IF r.kind = "return" THEN << >>
                                          ELSE r.msg.text]
                /\ PollEnd(r)

\* the loop condition fails: raise the timeout
poll_timeout ==
    /\ pc \in PollPcs
    /\ UNCHANGED <<genVars, sqlVars, appVars>>
    /\ UNCHANGED <<op, path, calls, docId, entities_present,
                   table_definitions, schemaOutcome, sql_execution_available,
                   warehouse_id>>
    /\ ~poll_loop_continues(elapsed)
    /\ elapsed' = 0
    /\ pollLog' = [pollLog EXCEPT !.result = "raised", !.text = Text_timeout]
    /\ PollEnd(Raise(Exc("Exception", Text_timeout)))

-----------------------------------------------------------------------------

Next ==
    \/ test_connection
    \/ write_file_to_volume
    \/ check_volume_exists
    \/ list_volume_contents
    \/ xml_read
    \/ xml_create_schema
    \/ xml_warehouse
    \/ xml_execute_create
    \/ xml_execute_insert
    \/ legacy_create_schema
    \/ legacy_warehouse
    \/ legacy_execute_create
    \/ poll_check
    \/ poll_timeout

Spec == Init /\ [][Next]_vars

-----------------------------------------------------------------------------
(* Helpers of the client applied on their own: _get_default_warehouse_id,      *)
(* _format_values_for_entity with _get_column_names_for_entity, and            *)
(* _generate_insert_statements                                                 *)

\* the columns of all_table_definitions, with their types, in column order
table_columns ==
    [wells |->
        <<<<"WellID", "STRING">>, <<"WellName", "STRING">>,
          <<"WellType", "STRING">>, <<"FacilityID", "STRING">>,
          <<"SpudDate", "DATE">>, <<"Status", "STRING">>,
          <<"CurrentOilRate", "DOUBLE">>, <<"CurrentGasRate", "DOUBLE">>,
          <<"WellboreDepth", "INTEGER">>, <<"WellboreTrajectory", "STRING">>,
          <<"ReservoirFormation", "STRING">>,
          <<"ReservoirFluidType", "STRING">>>>,
     facilities |->
        <<<<"FacilityID", "STRING">>, <<"FacilityName", "STRING">>,
          <<"FacilityType", "STRING">>, <<"Location", "STRING">>,
          <<"Latitude", "DOUBLE">>, <<"Longitude", "DOUBLE">>,
          <<"Capacity", "DOUBLE">>, <<"CapacityUnit", "STRING">>,
          <<"Status", "STRING">>>>,
     scenarios |->
        <<<<"ScenarioID", "STRING">>, <<"ScenarioName", "STRING">>,
          <<"PriceDeckID", "STRING">>, <<"Type", "STRING">>,
          <<"Status", "STRING">>, <<"Description", "STRING">>>>,
     price_decks_metadata |->
        <<<<"PriceDeckID", "STRING">>, <<"PriceDeckName", "STRING">>,
          <<"CurrencyID", "STRING">>>>,
     price_decks_annual_prices |->
        <<<<"PriceDeckID", "STRING">>, <<"Commodity", "STRING">>,
          <<"Unit", "STRING">>, <<"Year", "INTEGER">>, <<"Value", "DOUBLE">>>>,
     bulk_well_schedules |->
        <<<<"WellID", "STRING">>, <<"ScenarioID", "STRING">>,
          <<"ProductionDate", "DATE">>, <<"OilRate", "DOUBLE">>,
          <<"GasRate", "DOUBLE">>, <<"WaterRate", "DOUBLE">>>>,
     currencies |->
        <<<<"CurrencyID", "STRING">>, <<"CurrencyName", "STRING">>,
          <<"Symbol", "STRING">>>>,
     countries |->
        <<<<"CountryID", "STRING">>, <<"CountryName", "STRING">>>>,
     companies |->
        <<<<"CompanyID", "STRING">>, <<"CompanyName", "STRING">>,
          <<"CompanyType", "STRING">>, <<"Founded", "INTEGER">>>>,
     fiscal_regimes |->
        <<<<"FiscalRegimeID", "STRING">>, <<"FiscalRegimeName", "STRING">>,
          <<"FiscalRegimeType", "STRING">>, <<"TaxRate", "DOUBLE">>,
          <<"RoyaltyRate", "DOUBLE">>>>,
     meter_stations |->
        <<<<"MeterStationID", "STRING">>, <<"MeterStationName", "STRING">>,
          <<"MeterType", "STRING">>, <<"FacilityID", "STRING">>,
          <<"Accuracy", "DOUBLE">>>>,
     transportation_areas |->
        <<<<"TransportationAreaID", "STRING">>,
          <<"TransportationAreaName", "STRING">>,
          <<"TransportType", "STRING">>, <<"Capacity", "INTEGER">>>>,
     type_wells |->
        <<<<"TypeWellID", "STRING">>, <<"TypeWellName", "STRING">>,
          <<"Category", "STRING">>, <<"DrillingDays", "INTEGER">>,
          <<"CompletionCost", "INTEGER">>>>,
     tax_pools |->
        <<<<"TaxPoolID", "STRING">>, <<"TaxPoolName", "STRING">>,
          <<"TaxPoolType", "STRING">>, <<"Balance", "DOUBLE">>>>,
     batch_definitions |->
        <<<<"BatchDefinitionID", "STRING">>,
          <<"BatchDefinitionName", "STRING">>, <<"BatchType", "STRING">>,
          <<"Frequency", "STRING">>>>,
     change_record_categories |->
        <<<<"CategoryID", "STRING">>, <<"CategoryName", "STRING">>,
          <<"ChangeType", "STRING">>, <<"ApprovalRequired", "BOOLEAN">>>>,
     custom_data_fields |->
        <<<<"CustomDataFieldID", "STRING">>,
          <<"CustomDataFieldName", "STRING">>, <<"FieldType", "STRING">>,
          <<"Required", "BOOLEAN">>>>,
     hierarchies |->
        <<<<"HierarchyID", "STRING">>, <<"HierarchyName", "STRING">>,
          <<"HierarchyType", "STRING">>, <<"Levels", "INTEGER">>>>,
     rollups |->
        <<<<"RollupID", "STRING">>, <<"RollupName", "STRING">>,
          <<"RollupType", "STRING">>, <<"Frequency", "STRING">>>>]

\* column_mappings of _get_column_names_for_entity
column_mappings ==
    [wells |->
        <<"WellID", "WellName", "WellType", "FacilityID", "SpudDate",
          "Status", "CurrentOilRate", "CurrentGasRate", "WellboreDepth",
          "WellboreTrajectory", "ReservoirFormation", "ReservoirFluidType">>,
     facilities |->
        <<"FacilityID", "FacilityName", "FacilityType", "Location",
          "Latitude", "Longitude", "Capacity", "CapacityUnit", "Status">>,
     scenarios |->
        <<"ScenarioID", "ScenarioName", "PriceDeckID", "Type", "Status",
          "Description">>,
     price_decks_metadata |->
        <<"PriceDeckID", "PriceDeckName", "CurrencyID">>,
     price_decks_annual_prices |->
        <<"PriceDeckID", "Commodity", "Unit", "Year", "Value">>,
     bulk_well_schedules |->
        <<"WellID", "ScenarioID", "ProductionDate", "OilRate", "GasRate",
          "WaterRate">>,
     currencies |->
        <<"CurrencyID", "CurrencyName", "Symbol">>,
     countries |->
        <<"CountryID", "CountryName">>,
     companies |->
        <<"CompanyID", "CompanyName", "CompanyType", "Founded">>,
     fiscal_regimes |->
        <<"FiscalRegimeID", "FiscalRegimeName", "FiscalRegimeType",
          "TaxRate", "RoyaltyRate">>,
     meter_stations |->
        <<"MeterStationID", "MeterStationName", "MeterType", "FacilityID",
          "Accuracy">>,
     transportation_areas |->
        <<"TransportationAreaID", "TransportationAreaName", "TransportType",
          "Capacity">>,
     type_wells |->
        <<"TypeWellID", "TypeWellName", "Category", "DrillingDays",
          "CompletionCost">>,
     tax_pools |->
        <<"TaxPoolID", "TaxPoolName", "TaxPoolType", "Balance">>,
     batch_definitions |->
        <<"BatchDefinitionID", "BatchDefinitionName", "BatchType",
          "Frequency">>,
     change_record_categories |->
        <<"CategoryID", "CategoryName", "ChangeType", "ApprovalRequired">>,
     custom_data_fields |->
        <<"CustomDataFieldID", "CustomDataFieldName", "FieldType",
          "Required">>,
     hierarchies |->
        <<"HierarchyID", "HierarchyName", "HierarchyType", "Levels">>,
     rollups |->
        <<"RollupID", "RollupName", "RollupType", "Frequency">>]

\* the f-strings of _format_values_for_entity, value by value: the field read
\* with record.get, whether the value stands between single quotes, and the
\* default of record.get as str() renders it
value_formats ==
    [wells |->
        <<<<"ID", TRUE, "">>, <<"Name", TRUE, "">>, <<"Type", TRUE, "">>,
          <<"FacilityID", TRUE, "">>, <<"SpudDate", TRUE, "">>,
          <<"Status", TRUE, "">>, <<"CurrentOilRate", FALSE, "0">>,
          <<"CurrentGasRate", FALSE, "0">>, <<"WellboreDepth", FALSE, "0">>,
          <<"WellboreTrajectory", TRUE, "">>,
          <<"ReservoirFormation", TRUE, "">>,
          <<"ReservoirFluidType", TRUE, "">>>>,
     facilities |->
        <<<<"ID", TRUE, "">>, <<"Name", TRUE, "">>, <<"Type", TRUE, "">>,
          <<"Location", TRUE, "">>, <<"Latitude", FALSE, "0">>,
          <<"Longitude", FALSE, "0">>, <<"Capacity", FALSE, "0">>,
          <<"CapacityUnit", TRUE, "">>, <<"Status", TRUE, "">>>>,
     scenarios |->
        <<<<"ID", TRUE, "">>, <<"Name", TRUE, "">>,
          <<"PriceDeckID", TRUE, "">>, <<"Type", TRUE, "">>,
          <<"Status", TRUE, "">>, <<"Description", TRUE, "">>>>,
     price_decks_metadata |->
        <<<<"ID", TRUE, "">>, <<"Name", TRUE, "">>,
          <<"CurrencyID", TRUE, "">>>>,
     price_decks_annual_prices |->
        <<<<"PriceDeckID", TRUE, "">>, <<"Commodity", TRUE, "">>,
          <<"Unit", TRUE, "">>, <<"Year", TRUE, "">>, <<"Value", TRUE, "0">>>>,
     bulk_well_schedules |->
        <<<<"WellID", TRUE, "">>, <<"ScenarioID", TRUE, "">>,
          <<"ProductionDate", TRUE, "">>, <<"OilRate", FALSE, "0">>,
          <<"GasRate", FALSE, "0">>, <<"WaterRate", FALSE, "0">>>>,
     currencies |->
        <<<<"ID", TRUE, "">>, <<"Name", TRUE, "">>, <<"Symbol", TRUE, "">>>>,
     countries |->
        <<<<"ID", TRUE, "">>, <<"Name", TRUE, "">>>>,
     companies |->
        <<<<"ID", TRUE, "">>, <<"Name", TRUE, "">>, <<"Type", TRUE, "">>,
          <<"Founded", TRUE, "">>>>,
     fiscal_regimes |->
        <<<<"ID", TRUE, "">>, <<"Name", TRUE, "">>, <<"Type", TRUE, "">>,
          <<"TaxRate", TRUE, "0">>, <<"RoyaltyRate", TRUE, "0">>>>,
     meter_stations |->
        <<<<"ID", TRUE, "">>, <<"Name", TRUE, "">>, <<"Type", TRUE, "">>,
          <<"FacilityID", TRUE, "">>, <<"Accuracy", FALSE, "0">>>>,
     transportation_areas |->
        <<<<"ID", TRUE, "">>, <<"Name", TRUE, "">>, <<"Type", TRUE, "">>,
          <<"Capacity", FALSE, "0">>>>,
     type_wells |->
        <<<<"ID", TRUE, "">>, <<"Name", TRUE, "">>, <<"Category", TRUE, "">>,
          <<"DrillingDays", FALSE, "0">>, <<"CompletionCost", FALSE, "0">>>>,
     tax_pools |->
        <<<<"ID", TRUE, "">>, <<"Name", TRUE, "">>, <<"Type", TRUE, "">>,
          <<"Balance", FALSE, "0">>>>,
     batch_definitions |->
        <<<<"ID", TRUE, "">>, <<"Name", TRUE, "">>, <<"Type", TRUE, "">>,
          <<"Frequency", TRUE, "">>>>,
     change_record_categories |->
        <<<<"ID", TRUE, "">>, <<"Name", TRUE, "">>, <<"Type", TRUE, "">>,
          <<"ApprovalRequired", FALSE, "False">>>>,
     custom_data_fields |->
        <<<<"ID", TRUE, "">>, <<"Name", TRUE, "">>, <<"Type", TRUE, "">>,
          <<"Required", FALSE, "False">>>>,
     hierarchies |->
        <<<<"ID", TRUE, "">>, <<"Name", TRUE, "">>, <<"Type", TRUE, "">>,
          <<"Levels", FALSE, "0">>>>,
     rollups |->
        <<<<"ID", TRUE, "">>, <<"Name", TRUE, "">>, <<"Type", TRUE, "">>,
          <<"Frequency", TRUE, "">>>>]

\* the records a table's section may give: every field of the table's format
\* present, only the fields rendered between quotes present, or no field at all
\* (the values are attribute texts)
RecordsFor(entity_name) ==
    LET fmts == value_formats[entity_name]
        every == {fmts[k][1] : k \in 1..Len(fmts)}
        quoted == {fmts[k][1] : k \in {j \in 1..Len(fmts) : fmts[j][2]}}
    IN  {[f \in S |-> "1"] : S \in {every, quoted, {}}}

\* _format_values_for_entity for a table of the catalog: the values of the
\* returned text in order, each as the sequence of its parts (the values are
\* joined by ", ")
format_values_for_entity(entity_name, record) ==
    LET fmts == value_formats[entity_name]
        get(k) == IF fmts[k][1] \in DOMAIN record THEN record[fmts[k][1]]
                  ELSE fmts[k][3]
    IN  [k \in 1..Len(fmts) |->
            IF fmts[k][2] THEN <<"'", get(k), "'">> ELSE <<get(k)>>]

\* column_mappings.get(entity_name, '')
get_column_names_for_entity(entity_name) ==
    IF entity_name \in DOMAIN column_mappings THEN column_mappings[entity_name]
    ELSE << >>

\* the loop of _generate_insert_statements over range(0, n, batch_size): for each
\* batch the positions of its records in entity_data (every record of a catalog
\* table gives a non-empty values text, so every batch gives a statement)
RECURSIVE RowsFrom(_, _)
RowsFrom(n, i) ==
    IF i >= n THEN << >>
    ELSE <<[k \in 1..Min(batch_size, n - i) |-> i + k]>> \o RowsFrom(n, i + batch_size)

\* only the full batches give a statement
generate_insert_rows_fullOnly(n) ==
    IF n = 0 THEN << >> ELSE RowsFrom(n - (n % batch_size), 0)
\* _generate_insert_statements for n records: the rows of each statement
generate_insert_rows(n) ==
    IF n = 0 THEN << >> ELSE RowsFrom(n, 0)

SqlInit == ClientIdle /\ gpc = "off" /\ GeneratorIdle /\ SqlIdle /\ AppIdle

resolve_warehouse ==
    /\ fn = ""
    /\ \E out \in WarehouseOutcomes :
        /\ fn' = "_get_default_warehouse_id"
        /\ arg' = out
        /\ result' = get_default_warehouse_id(out)
    /\ UNCHANGED <<clientVars, genVars, appVars>>

format_values ==
    /\ fn = ""
    /\ \E entity_name \in all_table_definitions :
        \E record \in RecordsFor(entity_name) :
            /\ fn' = "_format_values_for_entity"
            /\ arg' = [entity_name |-> entity_name, record |-> record]
            /\ result' = [values |-> format_values_for_entity(entity_name, record),
                          columns |-> get_column_names_for_entity(entity_name)]
    /\ UNCHANGED <<clientVars, genVars, appVars>>

insert_statements ==
    /\ fn = ""
    /\ \E n \in 0..MaxRecords :
        /\ fn' = "_generate_insert_statements"
        /\ arg' = n
        /\ result' = generate_insert_rows(n)
    /\ UNCHANGED <<clientVars, genVars, appVars>>

SqlNext == resolve_warehouse \/ format_values \/ insert_statements

SqlSpec == SqlInit /\ [][SqlNext]_vars

-----------------------------------------------------------------------------
(* The callbacks of the form (src/app.py): generate_and_write_xml and          *)
(* create_schema_and_tables_callback.  A callback's outputs reach the page     *)
(* when it returns.  A numeric input is << >> when it is empty (None) and <<n>> *)
(* when it holds n; a text input holds a text, << >> when it is empty.          *)

Path_volume == <<"/","V","o","l","u","m","e","s","/","c","/","s","/","v">>
File_name == <<"f",".","x">>

\* what the user may have entered (the scenarios and price decks inputs hold a
\* positive number, the other optional inputs 0)
Forms ==
    [volume_path : {Path_volume, Path_volume \o <<"/">>, Path_volume \o <<"/", "/">>,
                    Path_tmp, << >>},
     filename : {File_name, << >>},
     catalog_name : {<<"c">>, << >>},
     num_wells : {<< >>, <<0>>, <<1>>},
     num_facilities : {<<0>>, <<1>>},
     num_companies : {<< >>, <<1>>}]

\* the truth value of an input: None, 0 and '' are false
Truthy(value) == value # << >> /\ value[1] # 0

\* generate_synthetic_valnav_xml called with the form's values: the class of
\* the exception it raises, "" for none (an empty numeric input is None, and
\* None > 0 raises TypeError)
form_generate_raises(f) ==
    IF f.num_companies = << >> THEN "TypeError"
    ELSE generate_raises([base_config EXCEPT !.num_wells = f.num_wells[1],
                                             !.num_facilities = f.num_facilities[1],
                                             !.num_companies = f.num_companies[1]])

\* f"{volume_path.rstrip('/')}/{filename}"
write_path(volume_path, filename) == RStrip(volume_path, "/") \o <<"/">> \o filename

\* if not volume_path.endswith('/'): volume_path += '/'; volume_path + filename
read_path(volume_path, filename) ==
    (IF volume_path # << >> /\ volume_path[Len(volume_path)] = "/" THEN volume_path
     ELSE volume_path \o <<"/">>) \o filename

\* write_to_databricks_volume: test_connection, then write_file_to_volume
write_to_databricks_volume(volume_path, me, upload) ==
    LET connected == test_connection_result(me) IN
    IF connected.kind = "return" /\ ~connected.flag
    THEN Return(FALSE, <<"Connection failed: ">> \o connected.msg)
    ELSE write_file_result(write_file_body(volume_path, upload).r)

\* the callback returns: the bar shows the width it returned
show(width) ==
    /\ apc' = "returned"
    /\ progress_bar' = width
    /\ bar_history' = Append(bar_history, width)

AppInit ==
    /\ ClientIdle /\ gpc = "off" /\ GeneratorIdle /\ SqlIdle
    /\ apc = "idle" /\ form \in Forms /\ progress = 0 /\ progress_bar = 0
    /\ bar_history = << >> /\ full_path = << >> /\ xml_file_path = << >>

\* generate_and_write_xml up to "progress = 10": the test of the required fields
generate_and_write_xml_validate ==
    /\ apc = "idle"
    /\ IF ~(Truthy(form.num_wells) /\ Truthy(form.num_facilities))
       THEN show(0) /\ UNCHANGED progress
       ELSE /\ progress' = 10
            /\ apc' = "generating"
            /\ UNCHANGED <<progress_bar, bar_history>>
    /\ UNCHANGED <<clientVars, genVars, sqlVars, form, full_path, xml_file_path>>

\* the call of generate_synthetic_valnav_xml, then "progress = 50"
generate_and_write_xml_generate ==
    /\ apc = "generating"
    /\ IF form_generate_raises(form) # ""
       THEN show(0) /\ UNCHANGED progress
       ELSE /\ progress' = 50
            /\ apc' = "writing"
            /\ UNCHANGED <<progress_bar, bar_history>>
    /\ UNCHANGED <<clientVars, genVars, sqlVars, form, full_path, xml_file_path>>

\* the write to the volume and the return
generate_and_write_xml_write ==
    /\ apc = "writing"
    /\ full_path' = write_path(form.volume_path, form.filename)
    /\ \E me \in {Return(TRUE, "user"), Raise(Exc("DatabricksError", Text_denied))},
          upload \in {Return(TRUE, "ok"), Raise(Exc("DatabricksError", Text_denied))} :
        LET r == write_to_databricks_volume(full_path', me, upload) IN
        /\ progress' = IF r.flag THEN 100 ELSE 0
        /\ show(progress')
    /\ UNCHANGED <<clientVars, genVars, sqlVars, form, xml_file_path>>

\* create_schema_and_tables_callback: the tests of its inputs and the path it
\* hands to create_valnav_schema_from_xml
create_schema_and_tables_callback ==
    /\ apc \in {"idle", "returned"}
    /\ xml_file_path = << >>
    /\ form.catalog_name # << >>
    /\ form.volume_path # << >> /\ form.filename # << >>
    /\ xml_file_path' = read_path(form.volume_path, form.filename)
    /\ UNCHANGED <<clientVars, genVars, sqlVars, apc, form, progress, progress_bar,
                   bar_history, full_path>>

AppNext ==
    \/ generate_and_write_xml_validate
    \/ generate_and_write_xml_generate
    \/ generate_and_write_xml_write
    \/ create_schema_and_tables_callback

AppSpec == AppInit /\ [][AppNext]_vars

-----------------------------------------------------------------------------
(* Properties *)

SimpleOps == {"test_connection", "write_file_to_volume", "check_volume_exists",
              "list_volume_contents"}
SchemaOps == {"create_valnav_schema_from_xml", "create_valnav_schema"}
XmlOp == "create_valnav_schema_from_xml"

AnyRaised == \E i \in 1..Len(calls) : calls[i].outcome = "raise"
Issued(api) == \E i \in 1..Len(calls) : calls[i].api = api
IsStmt(c, kind) == c.api = "statement_execution.execute_statement" /\ c.kind = kind
NumStmts(kind, table) ==
    Cardinality({i \in 1..Len(calls) : IsStmt(calls[i], kind) /\ calls[i].table = table})
NoStatements ==
    \A i \in 1..Len(calls) : calls[i].api # "statement_execution.execute_statement"
DownloadRaised ==
    \E i \in 1..Len(calls) : calls[i].api = "files.download" /\ calls[i].outcome = "raise"
\* schemas.create raised an error that reads "... Already Exists"
SchemaAlreadyExisted ==
    \E i \in 1..Len(calls) :
        /\ calls[i].api = "schemas.create" /\ calls[i].outcome = "raise"
        /\ calls[i].text = Text_AlreadyExists
\* schemas.create raised any other error
SchemaFailedOther ==
    \E i \in 1..Len(calls) :
        /\ calls[i].api = "schemas.create" /\ calls[i].outcome = "raise"
        /\ calls[i].text # Text_AlreadyExists
HasVolumesPrefix(p) ==
    Len(p) >= Len(VolumesPrefix) /\ \A i \in 1..Len(VolumesPrefix) : p[i] = VolumesPrefix[i]

\* C1 as stated: every public operation returns a (flag, message) pair, lets no
\* exception escape, and returns flag = false whenever one of its remote calls raised.
C1_Original ==
    pc = "done" =>
        /\ ~escaped
        /\ ret.flag \in BOOLEAN
        /\ (AnyRaised => ~ret.flag)

\* C1 (amended): every public operation returns a (flag, message) pair and lets no
\* exception escape; the flag is false when a remote call of test_connection,
\* write_file_to_volume, check_volume_exists or list_volume_contents raised, and when
\* in a schema-creation operation the download raised or schemas.create raised an
\* error other than "already exists".
C1_NoEscape ==
    pc = "done" =>
        /\ ~escaped
        /\ ret.flag \in BOOLEAN
        /\ (op \in SimpleOps /\ AnyRaised => ~ret.flag)
        /\ (op \in SchemaOps /\ (DownloadRaised \/ SchemaFailedOther) => ~ret.flag)

C1_Witness ==
    /\ pc = "done" /\ op = XmlOp /\ DownloadRaised
    /\ ~escaped /\ ~ret.flag

\* C2: write_file_to_volume with a path that does not begin with '/Volumes/' returns
\* (false, format error) and issues no remote call.
C2_RejectsBadPrefix ==
    (pc = "done" /\ op = "write_file_to_volume" /\ ~HasVolumesPrefix(path)) =>
        /\ ~escaped
        /\ ~ret.flag
        /\ ret.msg = <<"Volume path must start with '/Volumes/'">>
        /\ calls = << >>

C2_Witness ==
    /\ pc = "done" /\ op = "write_file_to_volume" /\ path = Path_lower
    /\ ~ret.flag /\ calls = << >>

\* C3: once a status check reported FAILED or CANCELED, the poll has raised a failure
\* that carries the platform-reported error, and no status check was issued after
\* that report.
C3_TerminalStopsPoll ==
    pollLog.terminal =>
        /\ pollLog.result = "raised"
        /\ ~pollLog.after
        /\ pollLog.text = Text_StatementFailedColon
                          \o (IF pollLog.error # NoError THEN pollLog.error
                              ELSE Text_Unknown_error)

C3_Witness ==
    /\ pollLog.terminal /\ pollLog.error = Text_syntax
    /\ pollLog.result = "raised" /\ Contains(pollLog.text, Text_syntax)

\* C4 as stated: the poll returns normally only if a status check reported
\* SUCCEEDED, and a poll that saw no terminal status ends by raising the timeout
\* failure.
C4_Claim ==
    /\ (pollLog.result = "returned" => pollLog.succeeded)
    /\ (pollLog.result = "raised" /\ ~pollLog.terminal => pollLog.text = Text_timeout)

\* C5: in both schema-creation paths, when schemas.create fails with an "already
\* exists" error the operation goes on to warehouse resolution and table creation,
\* and it returns success.
C5_AlreadyExistsIsSuccess ==
    (op \in SchemaOps /\ SchemaAlreadyExisted) =>
        /\ pc # "done" => ~escaped
        /\ pc = "done" =>
            /\ ~escaped /\ ret.flag
            /\ Issued("warehouses.list")
            /\ sql_execution_available =>
                \A k \in 1..Len(table_definitions) :
                    NumStmts("CREATE", table_definitions[k]) = 1

C5_Witness ==
    /\ pc = "done" /\ op = XmlOp /\ SchemaAlreadyExisted
    /\ ret.flag /\ Issued("warehouses.list")
    /\ NumStmts("CREATE", "price_decks_metadata") = 1

\* C6: in both schema-creation paths, when schemas.create fails with any other
\* error the operation returns (false, message) and issues no warehouse listing,
\* CREATE TABLE or INSERT afterwards.
C6_OtherSchemaErrorAborts ==
    (op \in SchemaOps /\ SchemaFailedOther) =>
        /\ pc = "done" /\ ~escaped /\ ~ret.flag
        /\ ret.msg[1] = "Failed to create schema: "
        /\ calls[Len(calls)].api = "schemas.create"
        /\ ~Issued("warehouses.list") /\ NoStatements

C6_Witness ==
    /\ pc = "done" /\ op = "create_valnav_schema" /\ SchemaFailedOther
    /\ ~ret.flag /\ Len(calls) = 1

\* C7: create_valnav_schema_from_xml reads the document first; when the download
\* raises or gives no content it returns (false, message) and issues neither the
\* schema-creation call nor any SQL statement.
C7_UnreadableDocumentAborts ==
    (op = XmlOp /\ calls[1].outcome # "text") =>
        /\ pc = "done" /\ ~escaped /\ ~ret.flag
        /\ Len(calls) = 1 /\ calls[1].api = "files.download"

C7_Witness ==
    /\ pc = "done" /\ op = XmlOp /\ calls[1].outcome = "empty"
    /\ ~ret.flag /\ ~Issued("schemas.create")

\* C8: in the document-driven path, when no SQL warehouse can be resolved, no
\* CREATE TABLE or INSERT is executed and the operation returns success with a
\* message that names the entities found and points to the notebook.
C8_NoWarehouseSkipsTables ==
    (pc = "done" /\ op = XmlOp /\ Issued("warehouses.list")
        /\ ~sql_execution_available) =>
        /\ ~escaped /\ ret.flag
        /\ NoStatements
        /\ ret.msg.notebook_for = Keys(parse_xml_entities(Docs[docId]))
        /\ ret.msg.hint = "use the notebook"
        /\ ret.msg.created = << >> /\ ret.msg.populated = << >>

C8_Witness ==
    /\ pc = "done" /\ op = XmlOp /\ Issued("warehouses.list")
    /\ ~sql_execution_available /\ ret.flag
    /\ ret.msg.notebook_for = <<"facilities", "wells">>

\* C9: in the document-driven path with SQL available, exactly one CREATE TABLE is
\* executed for each table that is a key of the extraction result and has a
\* definition in the catalog, and none for any other table; in particular none
\* for a table whose section is absent from the document.
SectionOf(table) ==
    IF table = "price_decks_annual_prices" THEN "PriceDecks"
    ELSE LET i == CHOOSE j \in 1..Len(entity_mappings) : entity_mappings[j][2] = table
         IN  entity_mappings[i][1]

C9_CreateIffEntityKnown ==
    (pc = "done" /\ op = XmlOp /\ sql_execution_available) =>
        /\ \A i \in 1..Len(calls) :
              IsStmt(calls[i], "CREATE") => calls[i].table \in all_table_definitions
        /\ \A t \in all_table_definitions :
              /\ NumStmts("CREATE", t) =
                    IF HasKey(entities_present, t) THEN 1 ELSE 0
              /\ Find(Docs[docId], SectionOf(t)) = 0 => NumStmts("CREATE", t) = 0

C9_Witness ==
    /\ pc = "done" /\ op = XmlOp /\ sql_execution_available
    /\ HasKey(entities_present, "facilities") /\ NumStmts("CREATE", "facilities") = 1
    /\ HasKey(entities_present, "wells") /\ NumStmts("CREATE", "wells") = 1
    /\ ~HasKey(entities_present, "companies") /\ NumStmts("CREATE", "companies") = 0

\* C10 as stated: every table for which a CREATE TABLE or an INSERT statement
\* failed is named as a failure in the message the document-driven path returns.
C10_Claim ==
    (pc = "done" /\ op = XmlOp /\ ~escaped /\ Issued("warehouses.list")) =>
        \A f \in stmtFailed :
            \E k \in 1..Len(ret.msg.failed) : ret.msg.failed[k].table = f[2]

\* C11 as stated: in the document-driven path a table is reported as populated
\* only if its CREATE succeeded, its record list is not empty and every INSERT
\* generated for it completed successfully.
C11_Claim ==
    (pc = "done" /\ op = XmlOp /\ ~escaped /\ Issued("warehouses.list")) =>
        \A k \in 1..Len(ret.msg.populated) :
            LET t == ret.msg.populated[k] IN
            /\ \E j \in 1..Len(ret.msg.created) : ret.msg.created[j] = t
            /\ RecordsOf(entities_present, t) > 0
            /\ <<"INSERT", t>> \notin stmtFailed
            /\ NumStmts("INSERT", t) =
                  Len(generate_insert_statements(RecordsOf(entities_present, t)))

-----------------------------------------------------------------------------
(* Properties of the generated document *)

Range(f) == {f[i] : i \in 1..Len(f)}
Generated == gpc \in {"generated", "extracted"}
ElementLines(tag) ==
    SelectSeq(xml_parts, LAMBDA l : l.tag = tag /\ l.kind \in {"open", "empty", "text"})
IdsOf(tag) == {Get(l, "ID", "") : l \in Range(ElementLines(tag))}
RefsOf(tag, attr) == {Get(l, attr, "") : l \in Range(ElementLines(tag))}
\* number of elements open around line j
DepthAt(j) ==
    Cardinality({i \in 1..(j - 1) : xml_parts[i].kind = "open"})
    - Cardinality({i \in 1..(j - 1) : xml_parts[i].kind = "close"})
\* the top-level sections of the document that have at least one child element
NonEmptySections ==
    {xml_parts[j].tag : j \in {i \in 1..(Len(xml_parts) - 1) :
        /\ xml_parts[i].kind = "open" /\ DepthAt(i) = 1
        /\ xml_parts[i + 1].kind # "close"}}
ExpectedKeys ==
    {entity_mappings[i][2] : i \in {k \in 1..Len(entity_mappings) :
                                        entity_mappings[k][1] \in NonEmptySections}}
    \cup (IF "PriceDecks" \in NonEmptySections THEN {"price_decks_annual_prices"} ELSE {})

\* C12: the keys of the extraction result of a generated document are exactly the
\* tables mapped from the top-level sections that are present and have child
\* elements (PriceDecks maps to the metadata and the annual-price table); each
\* key appears once.
C12_RoundTripKeys ==
    gpc = "extracted" =>
        /\ Range(Keys(extracted.entities)) = ExpectedKeys
        /\ Cardinality(Range(Keys(extracted.entities))) = Len(extracted.entities)

C12_Witness ==
    /\ gpc = "extracted" /\ config.num_wells = MaxWells
    /\ "Scenarios" \in NonEmptySections /\ "BulkWellSchedules" \notin NonEmptySections
    /\ HasKey(extracted.entities, "wells") /\ HasKey(extracted.entities, "scenarios")
    /\ ~HasKey(extracted.entities, "bulk_well_schedules")
    /\ ~HasKey(extracted.entities, "companies")

\* the last line before j that opens an element of this tag
Enclosing(j, tag) ==
    xml_parts[CHOOSE i \in 1..(j - 1) :
                 /\ xml_parts[i].tag = tag /\ xml_parts[i].kind = "open"
                 /\ \A i2 \in (i + 1)..(j - 1) :
                       ~(xml_parts[i2].tag = tag /\ xml_parts[i2].kind = "open")]
AnnualPriceAt ==
    Ascending({j \in 1..Len(xml_parts) : xml_parts[j].tag = "AnnualPrice"})

\* C13 as stated: a generated document with D >= 1 price decks yields D*3*6
\* annual-price records, each holding the ID of the enclosing PriceDeck, the
\* Commodity and Unit of the enclosing PriceCommodity and the Year and Value of
\* the AnnualPrice element.
C13_Claim ==
    (gpc = "extracted" /\ config.num_price_decks >= 1) =>
        /\ Len(extracted.annual_prices) = config.num_price_decks * 3 * 6
        /\ Len(AnnualPriceAt) = Len(extracted.annual_prices)
        /\ \A k \in 1..Len(AnnualPriceAt) :
              LET j == AnnualPriceAt[k] IN
              extracted.annual_prices[k] =
                  [PriceDeckID |-> Get(Enclosing(j, "PriceDeck"), "ID", ""),
                   Commodity |-> Get(Enclosing(j, "PriceCommodity"), "Commodity", ""),
                   Unit |-> Get(Enclosing(j, "PriceCommodity"), "Unit", ""),
                   Year |-> Get(xml_parts[j], "Year", ""),
                   Value |-> Get(xml_parts[j], "Value", "")]

\* C14: in every document generate returns, the FacilityID of every Well is the
\* ID of a Facility of the same document.
C14_WellFacilityExists ==
    Generated => RefsOf("Well", "FacilityID") \subseteq IdsOf("Facility")

C14_Witness ==
    /\ Generated /\ config.num_wells = 2 /\ config.num_facilities = 2
    /\ RefsOf("Well", "FacilityID") = {Id("FAC-", 1, 3), Id("FAC-", 2, 3)}

\* C15: in every document generate returns, the ScenarioID of every WellSchedule
\* is the ID of a Scenario, and the PriceDeckID of every Scenario is the ID of a
\* PriceDeck.
C15_ScenarioReferencesExist ==
    Generated =>
        /\ RefsOf("WellSchedule", "ScenarioID") \subseteq IdsOf("Scenario")
        /\ RefsOf("Scenario", "PriceDeckID") \subseteq IdsOf("PriceDeck")

C15_Witness ==
    /\ Generated /\ config.num_scenarios = 2 /\ config.num_price_decks = 2
    /\ Id("SCN-", 2, 3) \in RefsOf("WellSchedule", "ScenarioID")
    /\ Id("PD-", 2, 3) \in RefsOf("Scenario", "PriceDeckID")

\* C16 as stated: in every generated document the FacilityID of every
\* MeterStation is the ID of a Facility, every MemberWellID is the ID of a Well
\* and the WellID of every WellSchedule is the ID of a Well.
C16_Claim ==
    Generated =>
        /\ RefsOf("MeterStation", "FacilityID") \subseteq IdsOf("Facility")
        /\ {l.text : l \in Range(ElementLines("MemberWellID"))} \subseteq IdsOf("Well")
        /\ RefsOf("WellSchedule", "WellID") \subseteq IdsOf("Well")

optional_sections ==
    [num_companies |-> <<"Companies", "Company">>,
     num_countries |-> <<"Countries", "Country">>,
     num_currencies |-> <<"Currencies", "Currency">>,
     num_fiscal_regimes |-> <<"FiscalRegimes", "FiscalRegime">>,
     num_meter_stations |-> <<"MeterStations", "MeterStation">>,
     num_transportation_areas |-> <<"TransportationAreas", "TransportationArea">>,
     num_type_wells |-> <<"TypeWells", "TypeWell">>,
     num_tax_pools |-> <<"TaxPools", "TaxPool">>,
     num_rollups |-> <<"Rollups", "Rollup">>]

\* C17 as stated: for every optional entity kind and every count N the form
\* allows, the section is absent from the generated document when N = 0 and
\* present with exactly N child elements when N > 0.
C17_Claim ==
    Generated =>
        \A k \in OptionalKinds :
            /\ config[k] = 0 => ElementLines(optional_sections[k][1]) = << >>
            /\ config[k] > 0 =>
                /\ Len(ElementLines(optional_sections[k][1])) = 1
                /\ Len(ElementLines(optional_sections[k][2])) = config[k]

\* C18 as stated: the number of wells that get WellSchedule entries is
\* floor(wells * coverage), e.g. 50 for 100 wells and a coverage of 0.5.
C18_Claim ==
    (gpc = "form" /\ num_scheduled # -1) =>
        num_scheduled = (config.num_wells * config.schedule_coverage) \div 100

\* C19 as stated: generate raises no error for any configuration of non-negative
\* counts, 1..120 history months and a coverage within 0..1, provided a price
\* deck exists when scenarios are requested.
C19_Claim ==
    (gpc \notin {"off", "form", "start"}
        /\ (config.num_scenarios > 0 => config.num_price_decks >= 1)) =>
        gen_raised = "" /\ gpc # "raised"

InRanges(c) ==
    /\ c.num_wells \in 1..10000 /\ c.num_facilities \in 1..1000
    /\ c.num_scenarios \in 1..50 /\ c.num_price_decks \in 1..20
    /\ c.history_months \in 1..120 /\ c.schedule_coverage \in 10..100
ViolatedRules(c) ==
    {r \in {"wells", "facilities", "scenarios", "price decks", "history", "coverage",
            "facilities exceed wells"} :
        \/ r = "wells" /\ c.num_wells \notin 1..10000
        \/ r = "facilities" /\ c.num_facilities \notin 1..1000
        \/ r = "scenarios" /\ c.num_scenarios \notin 1..50
        \/ r = "price decks" /\ c.num_price_decks \notin 1..20
        \/ r = "history" /\ c.history_months \notin 1..120
        \/ r = "coverage" /\ c.schedule_coverage \notin 10..100
        \/ r = "facilities exceed wells" /\ c.num_facilities > c.num_wells}

\* C20: validate_inputs passes exactly when all six arguments are within their
\* ranges and facilities <= wells; it accepts the default configuration, and a
\* rejection carries one entry per violated rule, each entry once.
C20_ValidateExact ==
    (gpc = "form" /\ validation # NoValidation) =>
        /\ validation.flag <=> (InRanges(config) /\ config.num_facilities <= config.num_wells)
        /\ config = default_config => validation.flag
        /\ validation.flag => validation.errors = << >>
        /\ Len(validation.errors) = Cardinality(ViolatedRules(config))
        /\ Cardinality(Range(validation.errors)) = Len(validation.errors)

C20_Witness ==
    /\ gpc = "form" /\ validation # NoValidation
    /\ config.num_wells = 1 /\ config.num_facilities = 15 /\ config.schedule_coverage = 101
    /\ InRanges([config EXCEPT !.schedule_coverage = 100])
    /\ ~validation.flag /\ Len(validation.errors) = 2

-----------------------------------------------------------------------------
(* Properties of the statement-completion poll, continued *)

\* C22 as stated: a status check that reports a state outside SUCCEEDED, FAILED,
\* CANCELED, PENDING and RUNNING ends the poll with a failure that reports the
\* unrecognized state; the poll does not sleep and check again.
C22_Claim ==
    pollLog.last = "unknown" =>
        /\ pollLog.result = "raised"
        /\ pollLog.text = Text_Unknown_state \o StateText("CLOSED")

\* C23 as stated: an error raised by a status check itself, whatever its text,
\* is swallowed and followed by a 2-second wait and another status check, until
\* the ceiling is reached; it never ends the poll early.
C23_Claim ==
    pollLog.last = "raise" =>
        \/ pollLog.result = "polling" /\ elapsed >= poll_sleep
        \/ pollLog.result = "raised" /\ pollLog.text = Text_timeout

-----------------------------------------------------------------------------
(* Properties of the helpers applied on their own *)

\* C24 as stated: warehouse resolution over the warehouses of one listing, which
\* may be consumable only once, returns the first RUNNING warehouse if there is
\* one, otherwise the first STOPPED or STARTING warehouse, and fails only when
\* the listing holds no warehouse in any of these states.
C24_Claim ==
    (fn = "_get_default_warehouse_id" /\ arg.kind = "return") =>
        LET ws == arg.ws
            firstOf(states) ==
                CHOOSE i \in 1..Len(ws) :
                    ws[i] \in states /\ \A j \in 1..(i - 1) : ws[j] \notin states
            some(states) == \E i \in 1..Len(ws) : ws[i] \in states
        IN  IF some({"RUNNING"}) THEN result = Return(TRUE, firstOf({"RUNNING"}))
            ELSE IF some({"STOPPED", "STARTING"})
                 THEN result = Return(TRUE, firstOf({"STOPPED", "STARTING"}))
            ELSE result.kind = "raise"

\* C25 as stated: for every table of the catalog the values built for a record
\* are one per column of the table, in column order; the value of a STRING or
\* DATE column stands between single quotes, the value of an INTEGER or DOUBLE
\* column stands unquoted, and is 0 when the record lacks the field.
C25_Claim ==
    fn = "_format_values_for_entity" =>
        LET cols == table_columns[arg.entity_name]
            fmts == value_formats[arg.entity_name]
            values == result.values
        IN  /\ Len(values) = Len(cols)
            /\ result.columns = [k \in 1..Len(cols) |-> cols[k][1]]
            /\ \A k \in 1..Len(cols) :
                /\ cols[k][2] \in {"STRING", "DATE"} =>
                        /\ Len(values[k]) = 3
                        /\ values[k][1] = "'" /\ values[k][3] = "'"
                /\ cols[k][2] \in {"INTEGER", "DOUBLE"} =>
                        /\ Len(values[k]) = 1
                        /\ fmts[k][1] \notin DOMAIN arg.record => values[k] = <<"0">>

\* C26: for n > 0 records INSERT generation gives ceil(n/100) statements, each
\* of at most 100 rows, and the rows of the statements taken in order are the
\* records in their original order, each exactly once.
C26_Batches ==
    (fn = "_generate_insert_statements" /\ arg > 0) =>
        /\ Len(result) = (arg + 99) \div 100
        /\ \A j \in 1..Len(result) : Len(result[j]) \in 1..100
        /\ Flatten(result) = [k \in 1..arg |-> k]
        /\ \A j \in 1..Len(result) : Len(result[j]) = generate_insert_statements(arg)[j]

C26_Witness ==
    /\ fn = "_generate_insert_statements" /\ arg = 201
    /\ Len(result) = 3 /\ Len(result[2]) = 100 /\ result[3] = <<201>>

-----------------------------------------------------------------------------
(* Properties of the schema-creation paths, continued *)

StmtCalls(kind) == {i \in 1..Len(calls) : IsStmt(calls[i], kind)}

\* C27: in a run of the document-driven path every CREATE TABLE is submitted
\* before the first INSERT; an INSERT for a table is submitted only after the
\* CREATE TABLE of that table was submitted and its poll returned, which it does
\* only on SUCCEEDED; and a statement is submitted only when no poll is running
\* (a statement counts as in flight from its submission to the end of its poll).
C27_StatementOrder ==
    op = XmlOp =>
        /\ \A i \in StmtCalls("INSERT") : \A j \in StmtCalls("CREATE") : j < i
        /\ \A i \in StmtCalls("INSERT") :
            /\ \E j \in StmtCalls("CREATE") :
                    /\ j < i /\ calls[j].table = calls[i].table
                    /\ calls[j].outcome = "return"
            /\ <<"CREATE", calls[i].table>> \notin stmtFailed
            /\ \E k \in 1..Len(created_tables) : created_tables[k] = calls[i].table
        /\ pollLog.result = "returned" => pollLog.succeeded
        /\ pc \in {"xml_create", "xml_insert"} => pollLog.result # "polling"
        /\ pollLog.result = "polling" =>
            /\ pc \in {"xml_create_poll", "xml_insert_poll"}
            /\ IsStmt(calls[Len(calls)], IF pc = "xml_create_poll" THEN "CREATE"
                                         ELSE "INSERT")
            /\ calls[Len(calls)].outcome = "return"

C27_Witness ==
    /\ pc = "done" /\ op = XmlOp
    /\ <<"CREATE", "wells">> \in stmtFailed /\ NumStmts("INSERT", "wells") = 0
    /\ NumStmts("CREATE", "facilities") = 1 /\ NumStmts("INSERT", "facilities") = 1

\* C28: once the schema was created or already existed (in the document-driven
\* path: after the document was read), both schema-creation paths return
\* success, however many CREATE TABLE or INSERT statements failed or timed out;
\* with SQL execution available a CREATE TABLE was attempted for every table
\* definition, and an INSERT for every created table that has records.
C28_SuccessDespiteFailures ==
    (pc = "done" /\ op \in SchemaOps /\ schemaOutcome \in {"created", "exists"}) =>
        /\ ~escaped /\ ret.flag
        /\ sql_execution_available =>
            \A k \in 1..Len(table_definitions) :
                NumStmts("CREATE", table_definitions[k]) = 1
        /\ op = XmlOp =>
            \A k \in 1..Len(created_tables) :
                RecordsOf(entities_present, created_tables[k]) > 0 =>
                    NumStmts("INSERT", created_tables[k]) >= 1

C28_Witness ==
    /\ pc = "done" /\ op = XmlOp /\ sql_execution_available /\ ret.flag
    /\ Len(table_definitions) = 2 /\ created_tables = << >>
    /\ Len(failed_tables) = 2
    /\ \E k \in 1..2 : failed_tables[k].text = Text_timeout

\* the document that was read cannot be parsed, or holds none of the known sections
UnparsedDocument ==
    /\ docId # 0
    /\ \/ ~Docs[docId].wellformed
       \/ \A i \in 1..Len(entity_mappings) : Find(Docs[docId], entity_mappings[i][1]) = 0

\* C29 as stated: when the document read from the volume is not empty but cannot
\* be parsed, or holds none of the known sections, the document-driven path
\* issues the schema-creation call, executes no CREATE TABLE or INSERT, and
\* returns success.
C29_Original ==
    (pc = "done" /\ op = XmlOp /\ UnparsedDocument) =>
        /\ Issued("schemas.create")
        /\ NoStatements
        /\ ~escaped /\ ret.flag

\* C29: in that case the extraction result is empty, the schema-creation call
\* is issued, no CREATE TABLE or INSERT is executed, and the path returns
\* success unless the schema-creation call failed with an error other than
\* "already exists".
C29_UnparsedIsEmpty ==
    (pc = "done" /\ op = XmlOp /\ UnparsedDocument) =>
        /\ entities_present = << >> /\ table_definitions = << >>
        /\ Issued("schemas.create")
        /\ NoStatements
        /\ ~escaped
        /\ ret.flag <=> schemaOutcome \in {"created", "exists"}

C29_Witness ==
    /\ pc = "done" /\ op = XmlOp /\ docId # 0 /\ ~Docs[docId].wellformed
    /\ schemaOutcome = "created" /\ sql_execution_available
    /\ ret.flag /\ NoStatements

-----------------------------------------------------------------------------
(* Properties of the form's callbacks *)

\* C21 as stated: during one Generate & Write action the progress bar shows 10%
\* and then 50% before it shows 100% on success, and it shows 0% after any
\* failure.
C21_Claim ==
    (apc = "returned" /\ bar_history # << >>) =>
        IF progress_bar = 100 THEN bar_history = <<10, 50, 100>>
        ELSE progress_bar = 0

\* C30 as stated: for a non-empty volume path and file name, the path the Create
\* Schema & Tables action reads is the path the Generate & Write action wrote
\* with the same form values, whether the volume path ends with no, one or
\* several "/".
C30_Claim ==
    (form.volume_path # << >> /\ form.filename # << >>
        /\ apc = "returned" /\ progress_bar = 100 /\ xml_file_path # << >>) =>
        xml_file_path = full_path

====
